---- MODULE Spec2Model ----
(***************************************************************************)
(* Gallery state engine (useGallery hook) over the chunked Firestore       *)
(* gateway: a metadata document (albums, photoChunkIds) plus photo chunk   *)
(* documents.  Every await on the gateway is one step of the model, so     *)
(* overlapping loads and overlapping gateway calls interleave as they do   *)
(* in the browser's event loop.                                            *)
(***************************************************************************)
EXTENDS Integers, Sequences, FiniteSets, TLC

VARIABLES
  meta,        \* remote gallery/metadata document
  chunks,      \* remote photo_chunks collection: chunk id -> photo list
  deletedLog,  \* remote deleted_photos collection (photo ids logged)
  photos,      \* useState photos (PhotoWithChunk[])
  albums,      \* useState albums
  loading,     \* useState loading
  error,       \* useState error
  loads,       \* in-flight fetchData calls
  op,          \* the engine operation in flight (or the last one finished)
  fan,         \* in-flight fbUpdateAlbum calls of a theme rename
  pipes,       \* in-flight processAndUploadSinglePhoto pipelines
  batch,       \* loop state of batchUploadPhotos
  now,         \* Date.now() as last read for a chunk id
  today,       \* new Date().toISOString().split('T')[0]
  nextPhoto,   \* source of fresh photo ids
  nextAlbum,   \* source of fresh album ids
  view         \* what a component derives: its inputs and the values computed

vars == <<meta, chunks, deletedLog, photos, albums, loading, error,
          loads, op, fan, pipes, batch, now, today, nextPhoto, nextAlbum, view>>

store  == <<meta, chunks, deletedLog>>
local  == <<photos, albums>>
flags  == <<loading, error>>
fresh  == <<now, today, nextPhoto, nextAlbum>>
engine == <<store, local, flags, loads, op, fan, pipes, batch, fresh>>

----------------------------------------------------------------------------
(* Bounds *)

MaxPhotos == 2
MaxAlbums == 2
MaxLoads  == 2
MaxDay    == 2
MaxFiles  == 4
MaxLen    == 8
MaxScreen == 26
MaxRatio  == 10
MaxUrl    == 4
MaxStat   == 2
MaxQuery  == 2
MaxItems  == 121

(* Program constants *)

CHUNK_SIZE == 500
chunkSize  == 3

NoAlbum == 0
Themes  == {"Travel", "Trips"}
NoError == "null"
NoView  == [of |-> "none"]
FetchError == "Failed to fetch gallery data."

----------------------------------------------------------------------------
(* Sequence helpers standing for the array methods the code uses *)

EmptyFn == [x \in {} |-> 0]

Range(s) == {s[i] : i \in DOMAIN s}

Ids(s) == {s[i].id : i \in DOMAIN s}

\* Array.prototype.flat over the chunk results, in photoChunkIds order
RECURSIVE Flat(_)
Flat(ss) == IF ss = <<>> THEN <<>> ELSE Head(ss) \o Flat(Tail(ss))

\* photos.sort((a, b) => new Date(b.date) - new Date(a.date)): stable, newest first
RECURSIVE InsertByDateDesc(_, _)
InsertByDateDesc(sorted, p) ==
  IF sorted = <<>> THEN <<p>>
  ELSE IF Head(sorted).date >= p.date
       THEN <<Head(sorted)>> \o InsertByDateDesc(Tail(sorted), p)
       ELSE <<p>> \o sorted

RECURSIVE SortByDateDesc(_)
SortByDateDesc(s) ==
  IF s = <<>> THEN <<>>
  ELSE InsertByDateDesc(SortByDateDesc(SubSeq(s, 1, Len(s) - 1)), s[Len(s)])

\* firestore arrayUnion: append the element unless an equal one is present
ArrayUnion(s, e) == IF e \in Range(s) THEN s ELSE Append(s, e)

----------------------------------------------------------------------------
(* Remote documents *)

NoMeta    == [exists |-> FALSE, albums |-> <<>>, photoChunkIds |-> <<>>]
EmptyMeta == [exists |-> TRUE,  albums |-> <<>>, photoChunkIds |-> <<>>]

ChunkExists(c) == c \in DOMAIN chunks

\* setDoc(chunkRef, {data}) / updateDoc(chunkRef, {data}) on chunk c
PutChunk(c, data) == [d \in DOMAIN chunks \cup {c} |-> IF d = c THEN data ELSE chunks[d]]

\* data.map(photo => ({ ...photo, _chunkId: chunkId }))
Tag(data, c) == [i \in DOMAIN data |->
                  [id |-> data[i].id, albumId |-> data[i].albumId,
                   date |-> data[i].date, chunkId |-> c]]

----------------------------------------------------------------------------
(* fetchData / getGalleryData *)

Slots == 1..MaxLoads

IdleLoad == [pc |-> "idle", cause |-> "none", arg |-> NoAlbum, albums |-> <<>>,
             chunkIds |-> <<>>, pending |-> {}, got |-> EmptyFn,
             rank |-> 0, overtaken |-> FALSE]

InFlight(l) == loads[l].pc \in {"meta", "init", "chunks"}

\* a fetchData call issued from call site `cause` into a free slot
Issue(l, cause, arg) ==
  [loads EXCEPT ![l] = [IdleLoad EXCEPT !.pc = "meta", !.cause = cause, !.arg = arg,
                          !.rank = 1 + Cardinality({k \in Slots : InFlight(k)})]]

\* the photos a load has assembled: chunks.flat()
Assembled(ld) == Flat([i \in 1..Len(ld.chunkIds) |-> ld.got[i]])

\* slot l leaves flight with record ld: calls issued later move up; when it
\* delivered a snapshot, the calls issued before it have been overtaken. The
\* snapshot of a call that overtook another, or was overtaken, stays on record
\* until the slot serves another call
Retire(l, ld, ok) ==
  [k \in Slots |->
     IF k = l THEN IF ok /\ (\/ ld.overtaken
                             \/ \E e \in Slots : InFlight(e) /\ loads[e].rank < loads[l].rank)
                   THEN [ld EXCEPT !.pc = "done", !.cause = "none",
                                   !.arg = NoAlbum, !.rank = 0]
                   ELSE [IdleLoad EXCEPT !.pc = IF ok THEN "done" ELSE "failed",
                                         !.overtaken = loads[l].overtaken]
     ELSE IF ~InFlight(k) THEN loads[k]
     ELSE IF loads[k].rank > loads[l].rank
          THEN [loads[k] EXCEPT !.rank = @ - 1]
          ELSE [loads[k] EXCEPT !.overtaken = @ \/ ok]]

SlotFree == \E l \in Slots : ~InFlight(l)
FreeSlot == CHOOSE l \in Slots : ~InFlight(l) /\ \A k \in 1..(l - 1) : InFlight(k)

\* no fetchData call is in flight and the view is not showing "Loading..."
Settled == ~loading /\ \A l \in Slots : ~InFlight(l)

\* Refetch with a fetchData that starts by clearing the error
Refetch_ClearError ==
  /\ SlotFree
  /\ loads' = Issue(FreeSlot, "refetch", NoAlbum)
  /\ loading' = TRUE
  /\ error' = NoError
  /\ UNCHANGED <<store, local, op, fan, pipes, batch, fresh, view>>

\* refetch: fetchData called by a consumer of the hook
Refetch ==
  /\ SlotFree
  /\ loads' = Issue(FreeSlot, "refetch", NoAlbum)
  /\ loading' = TRUE
  /\ UNCHANGED <<store, local, error, op, fan, pipes, batch, fresh, view>>

\* LoadDone with a guard that drops the response of an overtaken call
LoadDone_DropStale(l, ld) ==
  /\ photos' = IF ld.overtaken THEN photos ELSE SortByDateDesc(Assembled(ld))
  /\ albums' = IF ld.overtaken THEN albums ELSE ld.albums
  /\ loading' = FALSE
  /\ loads' = Retire(l, ld, TRUE)

\* getGalleryData resolves with the snapshot ld has gathered and fetchData goes
\* on in the same turn: setPhotos(sorted), setAlbums, finally setLoading(false)
LoadDone(l, ld) ==
  /\ photos' = SortByDateDesc(Assembled(ld))
  /\ albums' = ld.albums
  /\ loading' = FALSE
  /\ loads' = Retire(l, ld, TRUE)

\* getDoc(metadataRef) is served; with no chunk to read the snapshot is complete
LoadReadMeta(l) ==
  /\ loads[l].pc = "meta"
  /\ IF ~meta.exists
       THEN /\ loads' = [loads EXCEPT ![l].pc = "init"]
            /\ UNCHANGED <<local, loading>>
       ELSE IF Len(meta.photoChunkIds) = 0
       THEN LoadDone(l, [loads[l] EXCEPT !.albums = meta.albums])
       ELSE /\ loads' = [loads EXCEPT ![l] =
                 [@ EXCEPT !.pc = "chunks", !.albums = meta.albums,
                           !.chunkIds = meta.photoChunkIds,
                           !.pending = DOMAIN meta.photoChunkIds]]
            /\ UNCHANGED <<local, loading>>
  /\ UNCHANGED <<store, error, op, fan, pipes, batch, fresh, view>>

\* setDoc(metadataRef, { albums: [], photoChunkIds: [] }) is served and
\* getGalleryData returns { albums: [], photos: [] }
LoadInitMeta(l) ==
  /\ loads[l].pc = "init"
  /\ meta' = EmptyMeta
  /\ LoadDone(l, loads[l])
  /\ UNCHANGED <<chunks, deletedLog, error, op, fan, pipes, batch, fresh, view>>

\* getDoc(chunkRef) of one of the parallel chunk reads is served; the last one
\* completes the snapshot
LoadReadChunk(l, i) ==
  /\ loads[l].pc = "chunks"
  /\ i \in loads[l].pending
  /\ LET c    == loads[l].chunkIds[i]
         data == IF ChunkExists(c) THEN Tag(chunks[c], c) ELSE <<>>
         got2 == [j \in DOMAIN loads[l].got \cup {i} |->
                    IF j = i THEN data ELSE loads[l].got[j]]
         ld   == [loads[l] EXCEPT !.got = got2, !.pending = @ \ {i}]
     IN IF ld.pending = {}
          THEN LoadDone(l, ld)
          ELSE /\ loads' = [loads EXCEPT ![l] = ld]
               /\ UNCHANGED <<local, loading>>
  /\ UNCHANGED <<store, error, op, fan, pipes, batch, fresh, view>>

\* LoadFail with a catch block that also empties the collections
LoadFail_Clear(l) ==
  /\ loads[l].pc \in {"meta", "init", "chunks"}
  /\ error' = FetchError
  /\ loading' = FALSE
  /\ photos' = <<>>
  /\ albums' = <<>>
  /\ loads' = Retire(l, loads[l], FALSE)
  /\ UNCHANGED <<store, op, fan, pipes, batch, fresh, view>>

\* a gateway request of the load rejects: catch setError, finally setLoading(false)
LoadFail(l) ==
  /\ loads[l].pc \in {"meta", "init", "chunks"}
  /\ error' = FetchError
  /\ loading' = FALSE
  /\ loads' = Retire(l, loads[l], FALSE)
  /\ UNCHANGED <<store, local, op, fan, pipes, batch, fresh, view>>

----------------------------------------------------------------------------
(* Engine operations: one is in flight at a time; its record stays, with its
   outcome, until the next operation is invoked *)

IdleOp == [kind |-> "none", pc |-> "idle", result |-> "none", photoId |-> 0,
           chunkId |-> 0, albumId |-> NoAlbum, target |-> NoAlbum,
           theme |-> "", oldTheme |-> "", deleteSource |-> FALSE,
           moved |-> <<>>, data |-> <<>>, failedAt |-> "", synced |-> FALSE]

OpFree == op.pc \in {"idle", "done"}

\* the operation's promise settles: its arguments and outcome stay on record,
\* what it held between awaits is gone
Settle(o, r) == [o EXCEPT !.pc = "done", !.result = r, !.chunkId = 0,
                          !.moved = <<>>, !.data = <<>>]
Resolve(o) == Settle(o, "ok")
Reject(o)  == [Settle(o, "error") EXCEPT !.failedAt = o.pc]

\* the calendar day changes between two user actions
NextDay ==
  /\ today < MaxDay
  /\ today' = today + 1
  /\ UNCHANGED <<store, local, flags, loads, op, fan, pipes, batch, now, nextPhoto, nextAlbum, view>>

----------------------------------------------------------------------------
(* processAndUploadSinglePhoto and the gateway's addPhoto *)

Pipes == 1..chunkSize

NoPhoto  == [id |-> 0, albumId |-> NoAlbum, date |-> 0]
IdlePipe == [pc |-> "idle", albumId |-> NoAlbum, photo |-> NoPhoto, target |-> 0,
             created |-> FALSE]

PipeServerPcs == {"cloud", "decode", "getMeta", "initMeta", "getChunk",
                  "newChunk", "union", "append"}

PipeBusy(i) == pipes[i].pc # "idle"

\* uploadToCloudinary(file) resolves with the secure_url
PipeCloud(i) ==
  /\ pipes[i].pc = "cloud"
  /\ pipes' = [pipes EXCEPT ![i].pc = "decode"]
  /\ UNCHANGED <<store, local, flags, loads, op, fan, batch, fresh, view>>

\* PipeDecode with an optimistic setPhotos ahead of addPhoto
PipeDecode_Optimistic(i) ==
  /\ pipes[i].pc = "decode"
  /\ pipes' = [pipes EXCEPT ![i] =
       [@ EXCEPT !.pc = "getMeta",
                 !.photo = [id |-> nextPhoto, albumId |-> pipes[i].albumId,
                            date |-> today]]]
  /\ photos' = <<[id |-> nextPhoto, albumId |-> pipes[i].albumId, date |-> today,
                  chunkId |-> 0]>> \o photos
  /\ nextPhoto' = nextPhoto + 1
  /\ UNCHANGED <<store, albums, flags, loads, op, fan, batch, now, today, nextAlbum, view>>

\* image.decode() resolves; newPhoto is built and addPhoto(newPhoto) is called
PipeDecode(i) ==
  /\ pipes[i].pc = "decode"
  /\ pipes' = [pipes EXCEPT ![i] =
       [@ EXCEPT !.pc = "getMeta",
                 !.photo = [id |-> nextPhoto, albumId |-> pipes[i].albumId,
                            date |-> today]]]
  /\ nextPhoto' = nextPhoto + 1
  /\ UNCHANGED <<store, local, flags, loads, op, fan, batch, now, today, nextAlbum, view>>

\* `chunk_${Date.now()}`: a later millisecond than every earlier reading, or the
\* millisecond in which another pipeline took the latest reading, its setDoc
\* not yet served
DateNow(i) ==
  {now + 1} \cup
  {t \in {now} : \E j \in Pipes \ {i} :
      pipes[j].created /\ pipes[j].target = t /\ pipes[j].pc = "newChunk"}

\* addPhoto's capacity test on the chunk it has read
createNewChunk(c) == IF ChunkExists(c) THEN Len(chunks[c]) >= CHUNK_SIZE ELSE TRUE

\* addPhoto: getDoc(metadataRef) is served
PipeGetMeta(i) ==
  /\ pipes[i].pc = "getMeta"
  /\ IF ~meta.exists
       THEN /\ pipes' = [pipes EXCEPT ![i].pc = "initMeta"]
            /\ now' = now
       ELSE IF Len(meta.photoChunkIds) = 0
       THEN \E t \in DateNow(i) :
            /\ pipes' = [pipes EXCEPT ![i] =
                 [@ EXCEPT !.pc = "newChunk", !.target = t, !.created = TRUE]]
            /\ now' = t
       ELSE /\ pipes' = [pipes EXCEPT ![i] =
                 [@ EXCEPT !.pc = "getChunk",
                           !.target = meta.photoChunkIds[Len(meta.photoChunkIds)]]]
            /\ now' = now
  /\ UNCHANGED <<store, local, flags, loads, op, fan, batch, today, nextPhoto, nextAlbum, view>>

\* addPhoto: setDoc(metadataRef, { albums: [], photoChunkIds: [] }) is served
PipeInitMeta(i) ==
  /\ pipes[i].pc = "initMeta"
  /\ meta' = EmptyMeta
  /\ \E t \in DateNow(i) :
       /\ pipes' = [pipes EXCEPT ![i] =
            [@ EXCEPT !.pc = "newChunk", !.target = t, !.created = TRUE]]
       /\ now' = t
  /\ UNCHANGED <<chunks, deletedLog, local, flags, loads, op, fan, batch,
                 today, nextPhoto, nextAlbum, view>>

\* addPhoto: getDoc(chunkRef) of the last chunk is served
PipeGetChunk(i) ==
  /\ pipes[i].pc = "getChunk"
  /\ IF createNewChunk(pipes[i].target)
       THEN \E t \in DateNow(i) :
            /\ pipes' = [pipes EXCEPT ![i] =
                 [@ EXCEPT !.pc = "newChunk", !.target = t, !.created = TRUE]]
            /\ now' = t
       ELSE /\ pipes' = [pipes EXCEPT ![i].pc = "append"]
            /\ now' = now
  /\ UNCHANGED <<store, local, flags, loads, op, fan, batch, today, nextPhoto, nextAlbum, view>>

\* addPhoto: setDoc(newChunkRef, { data: [photo] }) is served
PipeNewChunk(i) ==
  /\ pipes[i].pc = "newChunk"
  /\ chunks' = PutChunk(pipes[i].target, <<pipes[i].photo>>)
  /\ pipes' = [pipes EXCEPT ![i].pc = "union"]
  /\ UNCHANGED <<meta, deletedLog, local, flags, loads, op, fan, batch, fresh, view>>

\* addPhoto: updateDoc(metadataRef, { photoChunkIds: arrayUnion(targetChunkId) }) is served
PipeUnion(i) ==
  /\ pipes[i].pc = "union"
  /\ meta.exists
  /\ meta' = [meta EXCEPT !.photoChunkIds = ArrayUnion(@, pipes[i].target)]
  /\ pipes' = [pipes EXCEPT ![i].pc = "stored"]
  /\ UNCHANGED <<chunks, deletedLog, local, flags, loads, op, fan, batch, fresh, view>>

\* addPhoto: updateDoc(chunkRef, { data: arrayUnion(photo) }) is served
PipeAppend(i) ==
  /\ pipes[i].pc = "append"
  /\ ChunkExists(pipes[i].target)
  /\ chunks' = PutChunk(pipes[i].target, ArrayUnion(chunks[pipes[i].target], pipes[i].photo))
  /\ pipes' = [pipes EXCEPT ![i].pc = "stored"]
  /\ UNCHANGED <<meta, deletedLog, local, flags, loads, op, fan, batch, fresh, view>>

\* { ...newPhoto, _chunkId: chunkId }
Uploaded(pp) == [id |-> pp.photo.id, albumId |-> pp.photo.albumId,
                 date |-> pp.photo.date, chunkId |-> pp.target]

\* a request of the pipeline rejects; an awaiting uploadAndAddPhoto or
\* batchUploadPhotos catches, logs and rethrows
PipeFail(i) ==
  /\ pipes[i].pc \in PipeServerPcs
  /\ pipes' = [pipes EXCEPT ![i] = IdlePipe]
  /\ op' = IF op.kind \in {"upload", "batch"} /\ op.pc = "run"
            THEN [Reject(op) EXCEPT !.failedAt = pipes[i].pc]
            ELSE op
  /\ UNCHANGED <<store, local, flags, loads, fan, batch, fresh, view>>

----------------------------------------------------------------------------
(* uploadAndAddPhoto *)

UploadStart(a) ==
  /\ OpFree
  /\ \A i \in Pipes : ~PipeBusy(i)
  /\ nextPhoto <= MaxPhotos
  /\ a \in {NoAlbum} \cup Ids(albums)
  /\ op' = [IdleOp EXCEPT !.kind = "upload", !.pc = "run", !.albumId = a]
  /\ pipes' = [pipes EXCEPT ![1] = [IdlePipe EXCEPT !.pc = "cloud", !.albumId = a]]
  /\ UNCHANGED <<store, local, flags, loads, fan, batch, fresh, view>>

\* setPhotos(prev => [newPhoto, ...prev])
UploadReturn ==
  /\ op.kind = "upload" /\ op.pc = "run"
  /\ pipes[1].pc = "stored"
  /\ photos' = <<Uploaded(pipes[1])>> \o photos
  /\ op' = Resolve(op)
  /\ pipes' = [pipes EXCEPT ![1] = IdlePipe]
  /\ UNCHANGED <<store, albums, flags, loads, fan, batch, fresh, view>>

----------------------------------------------------------------------------
(* batchUploadPhotos *)

\* total = files.length; next = the loop index i; newPhotos as the loop holds it
IdleBatch == [total |-> 0, next |-> 0, completedCount |-> 0, newPhotos |-> <<>>]

Min(a, b) == IF a < b THEN a ELSE b

\* files.slice(i, i + chunkSize): the pipelines of the group in flight
Group == 1..Min(chunkSize, batch.total - batch.next)

\* chunk.map(async file => ...): every pipeline of the group starts at once
Launch(g, a) ==
  [i \in Pipes |-> IF i <= g THEN [IdlePipe EXCEPT !.pc = "cloud", !.albumId = a]
                   ELSE IdlePipe]

BatchStart(n, a) ==
  /\ OpFree
  /\ \A i \in Pipes : ~PipeBusy(i)
  /\ nextPhoto + n - 1 <= MaxFiles
  /\ a \in {NoAlbum} \cup Ids(albums)
  /\ op' = [IdleOp EXCEPT !.kind = "batch", !.pc = "run", !.albumId = a]
  /\ batch' = [IdleBatch EXCEPT !.total = n]
  /\ pipes' = Launch(Min(chunkSize, n), a)
  /\ UNCHANGED <<store, local, flags, loads, fan, fresh, view>>

\* BatchProgress adding the group's length for every file that resolves
BatchProgress_PerGroup(i) ==
  /\ op.kind = "batch"
  /\ pipes[i].pc = "stored"
  /\ batch' = [batch EXCEPT !.completedCount = @ + Cardinality(Group)]
  /\ pipes' = IF op.pc = "run" THEN [pipes EXCEPT ![i].pc = "returned"]
              ELSE [pipes EXCEPT ![i] = IdlePipe]
  /\ UNCHANGED <<store, local, flags, loads, op, fan, fresh, view>>

\* a file's pipeline has resolved: completedCount++; onProgress(completedCount,
\* total); the photo is handed to Promise.all, which has no use for it once the
\* batch has rejected
BatchProgress(i) ==
  /\ op.kind = "batch"
  /\ pipes[i].pc = "stored"
  /\ batch' = [batch EXCEPT !.completedCount = @ + 1]
  /\ pipes' = IF op.pc = "run" THEN [pipes EXCEPT ![i].pc = "returned"]
              ELSE [pipes EXCEPT ![i] = IdlePipe]
  /\ UNCHANGED <<store, local, flags, loads, op, fan, fresh, view>>

\* Joined for a Promise.any: the first pipeline to resolve ends the wait
Joined_Any == op.kind = "batch" /\ op.pc = "run" /\ \E i \in Group : pipes[i].pc = "returned"

\* Promise.all(promises) resolves with the group's photos in file order
Joined  == op.kind = "batch" /\ op.pc = "run" /\ \A i \in Group : pipes[i].pc = "returned"
results == [i \in Group |-> Uploaded(pipes[i])]

\* newPhotos.push(...results) and the loop goes on to the next group
BatchNextGroup ==
  /\ Joined
  /\ batch.next + Cardinality(Group) < batch.total
  /\ LET started == batch.next + Cardinality(Group)
     IN /\ batch' = [batch EXCEPT !.next = started, !.newPhotos = @ \o results]
        /\ pipes' = Launch(Min(chunkSize, batch.total - started), op.albumId)
  /\ UNCHANGED <<store, local, flags, loads, op, fan, fresh, view>>

\* newPhotos.push(...results); setPhotos(prev => [...newPhotos, ...prev])
BatchReturn ==
  /\ Joined
  /\ batch.next + Cardinality(Group) = batch.total
  /\ photos' = (batch.newPhotos \o results) \o photos
  /\ batch' = [batch EXCEPT !.next = batch.total, !.newPhotos = <<>>]
  /\ pipes' = [i \in Pipes |-> IdlePipe]
  /\ op' = Resolve(op)
  /\ UNCHANGED <<store, albums, flags, loads, fan, fresh, view>>

----------------------------------------------------------------------------
(* createAlbum and the gateway's addAlbum *)

NewAlbum(o) == [id |-> o.albumId, theme |-> o.theme]

CreateAlbumStart(t) ==
  /\ OpFree
  /\ nextAlbum <= MaxAlbums
  /\ op' = [IdleOp EXCEPT !.kind = "createAlbum", !.pc = "addAlbum",
                           !.albumId = nextAlbum, !.theme = t]
  /\ nextAlbum' = nextAlbum + 1
  /\ UNCHANGED <<store, local, flags, loads, fan, pipes, batch, now, today, nextPhoto, view>>

\* addAlbum: updateDoc(metadataRef, { albums: arrayUnion(album) }) is served
CreateAlbumWrite ==
  /\ op.kind = "createAlbum" /\ op.pc = "addAlbum"
  /\ meta.exists
  /\ meta' = [meta EXCEPT !.albums = ArrayUnion(@, NewAlbum(op))]
  /\ op' = [op EXCEPT !.pc = "ack"]
  /\ UNCHANGED <<chunks, deletedLog, local, flags, loads, fan, pipes, batch, fresh, view>>

\* setAlbums(prev => [...prev, newAlbum])
CreateAlbumAck ==
  /\ op.kind = "createAlbum" /\ op.pc = "ack"
  /\ albums' = Append(albums, NewAlbum(op))
  /\ op' = Resolve(op)
  /\ UNCHANGED <<store, photos, flags, loads, fan, pipes, batch, fresh, view>>

----------------------------------------------------------------------------
(* updatePhotoDetails and the gateway's updatePhoto *)

\* photos.find(p => p.id === photoId)
Find(s, id) == s[CHOOSE i \in DOMAIN s : s[i].id = id /\ \A j \in 1..(i - 1) : s[j].id # id]

\* { ...photo, albumId }
WithAlbum(ph, a) == [ph EXCEPT !.albumId = a]

\* list.map(p => p.id === photoId ? { ...p, albumId } : p)
Repoint(s, id, a) == [i \in DOMAIN s |-> IF s[i].id = id THEN WithAlbum(s[i], a) ELSE s[i]]

\* list.filter(p => p.id !== id)
RECURSIVE Without(_, _)
Without(s, id) ==
  IF s = <<>> THEN <<>>
  ELSE (IF Head(s).id = id THEN <<>> ELSE <<Head(s)>>) \o Without(Tail(s), id)

UpdatePhotoStart(p, a) ==
  /\ OpFree
  /\ a \in {NoAlbum} \cup Ids(albums)
  /\ op' = IF p \in Ids(photos)
            THEN [IdleOp EXCEPT !.kind = "updatePhoto", !.pc = "read", !.photoId = p,
                                !.chunkId = Find(photos, p).chunkId, !.albumId = a]
            ELSE Reject([IdleOp EXCEPT !.kind = "updatePhoto", !.pc = "find", !.photoId = p])
  /\ UNCHANGED <<store, local, flags, loads, fan, pipes, batch, fresh, view>>

\* updatePhoto: getDoc(chunkRef) is served
UpdatePhotoRead ==
  /\ op.kind \in {"updatePhoto", "fbUpdatePhoto"} /\ op.pc = "read"
  /\ op' = IF ~ChunkExists(op.chunkId) THEN [op EXCEPT !.pc = "ack"]
            ELSE IF op.photoId \in Ids(chunks[op.chunkId])
                 THEN [op EXCEPT !.pc = "write",
                                 !.data = Repoint(chunks[op.chunkId], op.photoId, op.albumId)]
                 ELSE Reject(op)
  /\ UNCHANGED <<store, local, flags, loads, fan, pipes, batch, fresh, view>>

\* updatePhoto: updateDoc(chunkRef, { data: updatedList }) is served
UpdatePhotoWrite ==
  /\ op.kind \in {"updatePhoto", "fbUpdatePhoto"} /\ op.pc = "write"
  /\ ChunkExists(op.chunkId)
  /\ chunks' = PutChunk(op.chunkId, op.data)
  /\ op' = [op EXCEPT !.pc = "ack"]
  /\ UNCHANGED <<meta, deletedLog, local, flags, loads, fan, pipes, batch, fresh, view>>

\* setPhotos(prev => prev.map(p => p.id === photoId ? { ...p, ...details } : p))
UpdatePhotoAck ==
  /\ op.kind = "updatePhoto" /\ op.pc = "ack"
  /\ photos' = Repoint(photos, op.photoId, op.albumId)
  /\ op' = Resolve(op)
  /\ UNCHANGED <<store, albums, flags, loads, fan, pipes, batch, fresh, view>>

----------------------------------------------------------------------------
(* deletePhotoItem and the gateway's logDeletedPhoto, deletePhoto *)

DeletePhotoStart(p) ==
  /\ OpFree
  /\ op' = IF p \in Ids(photos)
            THEN [IdleOp EXCEPT !.kind = "deletePhoto", !.pc = "log", !.photoId = p,
                                !.chunkId = Find(photos, p).chunkId,
                                !.albumId = Find(photos, p).albumId]
            ELSE Reject([IdleOp EXCEPT !.kind = "deletePhoto", !.pc = "find", !.photoId = p])
  /\ UNCHANGED <<store, local, flags, loads, fan, pipes, batch, fresh, view>>

\* DeletePhotoLog with the photo taken off the list ahead of deletePhoto
DeletePhotoLog_Optimistic ==
  /\ op.kind = "deletePhoto" /\ op.pc = "log"
  /\ deletedLog' = deletedLog \cup {op.photoId}
  /\ photos' = Without(photos, op.photoId)
  /\ op' = [op EXCEPT !.pc = "read"]
  /\ UNCHANGED <<meta, chunks, albums, flags, loads, fan, pipes, batch, fresh, view>>

\* logDeletedPhoto: addDoc(collection(db, DELETED_PHOTOS_COLLECTION), ...) is served
DeletePhotoLog ==
  /\ op.kind = "deletePhoto" /\ op.pc = "log"
  /\ deletedLog' = deletedLog \cup {op.photoId}
  /\ op' = [op EXCEPT !.pc = "read"]
  /\ UNCHANGED <<meta, chunks, local, flags, loads, fan, pipes, batch, fresh, view>>

\* deletePhoto: getDoc(chunkRef) is served
DeletePhotoRead ==
  /\ op.kind \in {"deletePhoto", "fbDeletePhoto"} /\ op.pc = "read"
  /\ op' = IF ChunkExists(op.chunkId) /\ op.photoId \in Ids(chunks[op.chunkId])
            THEN [op EXCEPT !.pc = "write", !.data = Without(chunks[op.chunkId], op.photoId)]
            ELSE Reject(op)
  /\ UNCHANGED <<store, local, flags, loads, fan, pipes, batch, fresh, view>>

\* deletePhoto: updateDoc(chunkRef, { data: updatedList }) is served
DeletePhotoWrite ==
  /\ op.kind \in {"deletePhoto", "fbDeletePhoto"} /\ op.pc = "write"
  /\ ChunkExists(op.chunkId)
  /\ chunks' = PutChunk(op.chunkId, op.data)
  /\ op' = [op EXCEPT !.pc = "ack"]
  /\ UNCHANGED <<meta, deletedLog, local, flags, loads, fan, pipes, batch, fresh, view>>

\* setPhotos(prev => prev.filter(p => p.id !== photoId))
DeletePhotoAck ==
  /\ op.kind = "deletePhoto" /\ op.pc = "ack"
  /\ photos' = Without(photos, op.photoId)
  /\ op' = Resolve(op)
  /\ UNCHANGED <<store, albums, flags, loads, fan, pipes, batch, fresh, view>>

----------------------------------------------------------------------------
(* updateAlbum and the gateway's updateAlbum (fbUpdateAlbum) *)

\* { ...album, theme }
WithTheme(al, t) == [al EXCEPT !.theme = t]

\* updatedAlbums[albumIndex] = { ...updatedAlbums[albumIndex], ...details }
Retheme(s, id, t) == [i \in DOMAIN s |-> IF s[i].id = id THEN WithTheme(s[i], t) ELSE s[i]]

\* albums.filter(a => a.theme === oldTheme)
OnTheme(s, t) == {s[i].id : i \in {j \in DOMAIN s : s[j].theme = t}}

FanBusy == \E id \in DOMAIN fan : fan[id].pc \in {"read", "write"}

UpdateAlbumStart(a, t) ==
  /\ OpFree
  /\ ~FanBusy
  /\ a \in Ids(albums)
  /\ LET old == Find(albums, a).theme
         o   == [IdleOp EXCEPT !.kind = "updateAlbum", !.albumId = a, !.theme = t,
                               !.oldTheme = old]
     IN IF t # old
        THEN /\ fan' = [id \in OnTheme(albums, old) |->
                          [pc |-> "read", theme |-> t, data |-> <<>>]]
             /\ op' = [o EXCEPT !.pc = "fan"]
        ELSE /\ fan' = EmptyFn
             /\ op' = [o EXCEPT !.pc = "read"]
  /\ UNCHANGED <<store, local, flags, loads, pipes, batch, fresh, view>>

\* a fanned-out call has settled; an entry nobody awaits any more is dropped
FanSettle(id) ==
  IF op.kind = "updateAlbum" /\ op.pc = "fan"
  THEN [fan EXCEPT ![id] = [pc |-> "done", theme |-> fan[id].theme, data |-> <<>>]]
  ELSE [k \in DOMAIN fan \ {id} |-> fan[k]]

\* fbUpdateAlbum(a.id, { theme }): getDoc(metadataRef) is served
FanRead(id) ==
  /\ id \in DOMAIN fan /\ fan[id].pc = "read"
  /\ fan' = IF meta.exists /\ id \in Ids(meta.albums)
             THEN [fan EXCEPT ![id] = [@ EXCEPT !.pc = "write",
                                       !.data = Retheme(meta.albums, id, fan[id].theme)]]
             ELSE FanSettle(id)
  /\ UNCHANGED <<store, local, flags, loads, op, pipes, batch, fresh, view>>

\* fbUpdateAlbum(a.id, { theme }): updateDoc(metadataRef, { albums: updatedAlbums }) is served
FanWrite(id) ==
  /\ id \in DOMAIN fan /\ fan[id].pc = "write"
  /\ meta.exists
  /\ meta' = [meta EXCEPT !.albums = fan[id].data]
  /\ fan' = FanSettle(id)
  /\ UNCHANGED <<chunks, deletedLog, local, flags, loads, op, pipes, batch, fresh, view>>

\* a fanned-out call rejects: Promise.all rejects, the others keep running
FanFail(id) ==
  /\ id \in DOMAIN fan /\ fan[id].pc \in {"read", "write"}
  /\ fan' = [k \in DOMAIN fan \ {id} |-> fan[k]]
  /\ op' = IF op.kind = "updateAlbum" /\ op.pc = "fan" THEN Reject(op) ELSE op
  /\ UNCHANGED <<store, local, flags, loads, pipes, batch, fresh, view>>

\* await Promise.all(themeUpdatePromises) resumes; fbUpdateAlbum(albumId, details) is called
FanJoin ==
  /\ op.kind = "updateAlbum" /\ op.pc = "fan"
  /\ \A id \in DOMAIN fan : fan[id].pc = "done"
  /\ fan' = EmptyFn
  /\ op' = [op EXCEPT !.pc = "read"]
  /\ UNCHANGED <<store, local, flags, loads, pipes, batch, fresh, view>>

\* fbUpdateAlbum(albumId, details): getDoc(metadataRef) is served
UpdateAlbumRead ==
  /\ op.kind = "updateAlbum" /\ op.pc = "read"
  /\ op' = IF meta.exists /\ op.albumId \in Ids(meta.albums)
            THEN [op EXCEPT !.pc = "write",
                            !.data = Retheme(meta.albums, op.albumId, op.theme)]
            ELSE [op EXCEPT !.pc = "ack"]
  /\ UNCHANGED <<store, local, flags, loads, fan, pipes, batch, fresh, view>>

\* fbUpdateAlbum(albumId, details): updateDoc(metadataRef, { albums }) is served
UpdateAlbumWrite ==
  /\ op.kind = "updateAlbum" /\ op.pc = "write"
  /\ meta.exists
  /\ meta' = [meta EXCEPT !.albums = op.data]
  /\ op' = [op EXCEPT !.pc = "ack"]
  /\ UNCHANGED <<chunks, deletedLog, local, flags, loads, fan, pipes, batch, fresh, view>>

\* setAlbums(prev => prev.map(a => a.id === albumId ? { ...a, ...details } : a))
UpdateAlbumAck ==
  /\ op.kind = "updateAlbum" /\ op.pc = "ack"
  /\ albums' = Retheme(albums, op.albumId, op.theme)
  /\ op' = Resolve(op)
  /\ UNCHANGED <<store, photos, flags, loads, fan, pipes, batch, fresh, view>>

----------------------------------------------------------------------------
(* deleteAlbumItem, transferAlbumPhotos and the gateway's deleteAlbum,
   updatePhotosAlbumId *)

DeleteAlbumStart(a) ==
  /\ OpFree
  /\ a \in Ids(albums)
  /\ op' = [IdleOp EXCEPT !.kind = "deleteAlbum", !.pc = "read", !.albumId = a]
  /\ UNCHANGED <<store, local, flags, loads, fan, pipes, batch, fresh, view>>

\* deleteAlbum: getDoc(metadataRef) is served
DeleteAlbumRead ==
  /\ op.kind \in {"deleteAlbum", "transfer"} /\ op.pc = "read"
  /\ op' = IF meta.exists
            THEN [op EXCEPT !.pc = "write", !.data = Without(meta.albums, op.albumId)]
            ELSE [op EXCEPT !.pc = "ack"]
  /\ UNCHANGED <<store, local, flags, loads, fan, pipes, batch, fresh, view>>

\* deleteAlbum: updateDoc(metadataRef, { albums: updatedAlbums }) is served
DeleteAlbumWrite ==
  /\ op.kind \in {"deleteAlbum", "transfer"} /\ op.pc = "write"
  /\ meta.exists
  /\ meta' = [meta EXCEPT !.albums = op.data]
  /\ op' = [op EXCEPT !.pc = "ack"]
  /\ UNCHANGED <<chunks, deletedLog, local, flags, loads, fan, pipes, batch, fresh, view>>

\* setAlbums(prev => prev.filter(a => a.id !== albumId)); fetchData()
DeleteAlbumAck ==
  /\ op.kind = "deleteAlbum" /\ op.pc = "ack"
  /\ SlotFree
  /\ albums' = Without(albums, op.albumId)
  /\ loads' = Issue(FreeSlot, "deleteAlbum", op.albumId)
  /\ loading' = TRUE
  /\ op' = Resolve(op)
  /\ UNCHANGED <<store, photos, error, fan, pipes, batch, fresh, view>>

\* photos.filter(p => p.albumId === sourceAlbumId).map(p => ({ photoId, chunkId }))
RECURSIVE photosToTransfer(_, _)
photosToTransfer(s, a) ==
  IF s = <<>> THEN <<>>
  ELSE (IF Head(s).albumId = a
        THEN <<[photoId |-> Head(s).id, chunkId |-> Head(s).chunkId]>>
        ELSE <<>>) \o photosToTransfer(Tail(s), a)

\* the in-memory photos are the photos the store holds, each in its chunk
InSync ==
  Range(photos) =
    UNION {Range(Tag(chunks[c], c)) : c \in Range(meta.photoChunkIds) \cap DOMAIN chunks}

\* TransferStart with the filter on the wrong argument
TransferStart_FilterTarget(src, dst, del) ==
  /\ OpFree
  /\ src \in Ids(albums) /\ dst \in Ids(albums) /\ dst # src
  /\ LET pairs == photosToTransfer(photos, dst)
     IN op' = [IdleOp EXCEPT !.kind = "transfer", !.albumId = src, !.target = dst,
                             !.deleteSource = del, !.moved = pairs,
                             !.synced = InSync,
                             !.pc = IF Len(pairs) > 0 THEN "bulk"
                                   ELSE IF del THEN "read" ELSE "ack"]
  /\ UNCHANGED <<store, local, flags, loads, fan, pipes, batch, fresh, view>>

\* synced is history: it records whether the view was InSync when the call was
\* made, and no action reads it
TransferStart(src, dst, del) ==
  /\ OpFree
  /\ src \in Ids(albums) /\ dst \in Ids(albums) /\ dst # src
  /\ LET pairs == photosToTransfer(photos, src)
     IN op' = [IdleOp EXCEPT !.kind = "transfer", !.albumId = src, !.target = dst,
                             !.deleteSource = del, !.moved = pairs,
                             !.synced = InSync,
                             !.pc = IF Len(pairs) > 0 THEN "bulk"
                                   ELSE IF del THEN "read" ELSE "ack"]
  /\ UNCHANGED <<store, local, flags, loads, fan, pipes, batch, fresh, view>>

\* the pairs that name a photo stored in the chunk they name
Located(pairs) ==
  \A i \in DOMAIN pairs :
     /\ ChunkExists(pairs[i].chunkId)
     /\ pairs[i].photoId \in Ids(chunks[pairs[i].chunkId])

\* updatePhotosAlbumId(pairs, targetAlbumId): one batched write over the chunks
updatePhotosAlbumId(pairs, a) ==
  [c \in DOMAIN chunks |->
     [i \in DOMAIN chunks[c] |->
        IF \E k \in DOMAIN pairs : pairs[k].chunkId = c /\ pairs[k].photoId = chunks[c][i].id
        THEN WithAlbum(chunks[c][i], a) ELSE chunks[c][i]]]

\* updatePhotosAlbumId is served
TransferBulk ==
  /\ op.kind = "transfer" /\ op.pc = "bulk"
  /\ IF Located(op.moved)
       THEN /\ chunks' = updatePhotosAlbumId(op.moved, op.target)
            /\ op' = [op EXCEPT !.pc = IF op.deleteSource THEN "read" ELSE "ack"]
       ELSE /\ chunks' = chunks
            /\ op' = Reject(op)
  /\ UNCHANGED <<meta, deletedLog, local, flags, loads, fan, pipes, batch, fresh, view>>

\* fetchData()
TransferAck ==
  /\ op.kind = "transfer" /\ op.pc = "ack"
  /\ SlotFree
  /\ loads' = Issue(FreeSlot, "transfer", op.albumId)
  /\ loading' = TRUE
  /\ op' = Resolve(op)
  /\ UNCHANGED <<store, local, error, fan, pipes, batch, fresh, view>>

----------------------------------------------------------------------------
OpServerPcs == {"addAlbum", "log", "read", "write", "bulk"}

\* a gateway request of the operation rejects: catch, console.error, rethrow
OpFail ==
  /\ op.pc \in OpServerPcs
  /\ op' = Reject(op)
  /\ UNCHANGED <<store, local, flags, loads, fan, pipes, batch, fresh, view>>

----------------------------------------------------------------------------
Init ==
  /\ meta = NoMeta
  /\ chunks = EmptyFn
  /\ deletedLog = {}
  /\ photos = <<>>
  /\ albums = <<>>
  /\ loading = TRUE
  /\ error = NoError
  /\ loads = [l \in Slots |->
       IF l = 1 THEN [IdleLoad EXCEPT !.pc = "meta", !.cause = "mount", !.rank = 1]
       ELSE IdleLoad]
  /\ op = IdleOp
  /\ fan = EmptyFn
  /\ pipes = [i \in Pipes |-> IdlePipe]
  /\ batch = IdleBatch
  /\ now = 0
  /\ today = 1
  /\ nextPhoto = 1
  /\ nextAlbum = 1
  /\ view = NoView

\* the user acts on a settled view: nothing of an earlier action is in flight
Quiet == Settled /\ ~FanBusy /\ \A i \in Pipes : ~PipeBusy(i)

Load ==
  \/ \E l \in Slots : LoadReadMeta(l)
  \/ \E l \in Slots : LoadInitMeta(l)
  \/ \E l \in Slots : \E i \in 1..(MaxPhotos + 1) : LoadReadChunk(l, i)
  \/ \E l \in Slots : LoadFail(l)

Pipeline(i) ==
  \/ PipeCloud(i) \/ PipeDecode(i) \/ PipeGetMeta(i) \/ PipeInitMeta(i)
  \/ PipeGetChunk(i) \/ PipeNewChunk(i) \/ PipeUnion(i) \/ PipeAppend(i)
  \/ PipeFail(i)

----------------------------------------------------------------------------
(* Spec: the engine under a workload of photo and album membership edits.
   All albums are created on one theme. *)

Invoke ==
  \/ \E a \in 0..MaxAlbums : UploadStart(a)
  \/ CreateAlbumStart("Travel")
  \/ \E p \in 1..MaxPhotos : \E a \in 0..MaxAlbums : UpdatePhotoStart(p, a)
  \/ \E p \in 1..MaxPhotos : DeletePhotoStart(p)
  \/ \E a \in 1..MaxAlbums : DeleteAlbumStart(a)
  \/ \E a, b \in 1..MaxAlbums : \E d \in BOOLEAN : TransferStart(a, b, d)

Next ==
  \/ Quiet /\ Invoke
  \/ Load
  \/ Pipeline(1)
  \/ UploadReturn
  \/ CreateAlbumWrite \/ CreateAlbumAck
  \/ UpdatePhotoRead \/ UpdatePhotoWrite \/ UpdatePhotoAck
  \/ DeletePhotoLog \/ DeletePhotoRead \/ DeletePhotoWrite \/ DeletePhotoAck
  \/ DeleteAlbumRead \/ DeleteAlbumWrite \/ DeleteAlbumAck
  \/ TransferBulk \/ TransferAck
  \/ OpFail

Spec == Init /\ [][Next]_vars

----------------------------------------------------------------------------
(* SpecTheme: the engine under a workload of album edits: albums are created,
   renamed to another theme and deleted; no photo is uploaded. *)

InvokeTheme ==
  \/ \E t \in Themes : CreateAlbumStart(t)
  \/ \E a \in 1..MaxAlbums : \E t \in Themes : UpdateAlbumStart(a, t)
  \/ \E a \in 1..MaxAlbums : DeleteAlbumStart(a)

NextTheme ==
  \/ Quiet /\ InvokeTheme
  \/ \E l \in Slots : LoadReadMeta(l) \/ LoadInitMeta(l) \/ LoadFail(l)
  \/ CreateAlbumWrite \/ CreateAlbumAck
  \/ \E a \in 1..MaxAlbums : FanRead(a) \/ FanWrite(a) \/ FanFail(a)
  \/ FanJoin
  \/ UpdateAlbumRead \/ UpdateAlbumWrite \/ UpdateAlbumAck
  \/ DeleteAlbumRead \/ DeleteAlbumWrite \/ DeleteAlbumAck
  \/ OpFail

SpecTheme == Init /\ [][NextTheme]_vars

----------------------------------------------------------------------------
(* SpecRace: fetchData is called again while earlier calls are in flight, and
   photos are uploaded meanwhile, so that the calls are served different
   snapshots. The uploads' own requests succeed. *)

NextRace ==
  \/ Refetch
  \/ Load
  \/ UploadStart(NoAlbum)
  \/ PipeCloud(1) \/ PipeDecode(1) \/ PipeGetMeta(1) \/ PipeInitMeta(1) \/ PipeGetChunk(1)
  \/ PipeNewChunk(1) \/ PipeUnion(1) \/ PipeAppend(1)
  \/ UploadReturn

SpecRace == Init /\ [][NextRace]_vars

----------------------------------------------------------------------------
(* SpecUpload: single uploads, into albums or into none, on a settled view,
   on one day or the next. *)

NextUpload ==
  \/ Quiet /\ NextDay
  \/ Quiet /\ \E a \in 0..MaxAlbums : UploadStart(a)
  \/ Quiet /\ CreateAlbumStart("Travel")
  \/ LoadReadMeta(1) \/ LoadInitMeta(1) \/ LoadFail(1)
  \/ Pipeline(1)
  \/ UploadReturn
  \/ CreateAlbumWrite \/ CreateAlbumAck
  \/ OpFail

SpecUpload == Init /\ [][NextUpload]_vars

----------------------------------------------------------------------------
(* SpecTransfer: albums are created and filled, then merged into one another,
   the source album being deleted. *)

NextTransfer ==
  \/ Quiet /\ \E a \in 1..MaxAlbums : UploadStart(a)
  \/ Quiet /\ CreateAlbumStart("Travel")
  \/ Quiet /\ \E a, b \in 1..MaxAlbums : TransferStart(a, b, TRUE)
  \/ Load
  \/ PipeCloud(1) \/ PipeDecode(1) \/ PipeGetMeta(1) \/ PipeGetChunk(1)
  \/ PipeNewChunk(1) \/ PipeUnion(1) \/ PipeAppend(1) \/ PipeFail(1)
  \/ UploadReturn
  \/ CreateAlbumWrite \/ CreateAlbumAck
  \/ DeleteAlbumRead \/ DeleteAlbumWrite
  \/ TransferBulk \/ TransferAck
  \/ OpFail

SpecTransfer == Init /\ [][NextTransfer]_vars

----------------------------------------------------------------------------
(* SpecBatch: batch uploads into a gallery whose last chunk is one photo short
   of CHUNK_SIZE, or full. The gallery has been loaded. *)

\* n photos uploaded on an earlier day
Stock(n) == [k \in 1..n |-> [id |-> 0 - k, albumId |-> NoAlbum, date |-> 0]]

InitBatch ==
  /\ \E n \in {CHUNK_SIZE - 1, CHUNK_SIZE} :
       /\ chunks = [c \in {0} |-> Stock(n)]
       /\ photos = Tag(Stock(n), 0)
  /\ meta = [EmptyMeta EXCEPT !.photoChunkIds = <<0>>]
  /\ deletedLog = {}
  /\ albums = <<>>
  /\ loading = FALSE
  /\ error = NoError
  /\ loads = [l \in Slots |-> IF l = 1 THEN [IdleLoad EXCEPT !.pc = "done"] ELSE IdleLoad]
  /\ op = IdleOp
  /\ fan = EmptyFn
  /\ pipes = [i \in Pipes |-> IdlePipe]
  /\ batch = IdleBatch
  /\ now = 0
  /\ today = 1
  /\ nextPhoto = 1
  /\ nextAlbum = 1
  /\ view = NoView

NextBatch ==
  \/ \E n \in 1..MaxFiles : BatchStart(n, NoAlbum)
  \/ \E i \in Pipes :
        \/ PipeCloud(i) \/ PipeDecode(i) \/ PipeGetMeta(i) \/ PipeGetChunk(i)
        \/ PipeNewChunk(i) \/ PipeUnion(i) \/ PipeAppend(i) \/ PipeFail(i)
        \/ BatchProgress(i)
  \/ BatchNextGroup
  \/ BatchReturn

SpecBatch == InitBatch /\ [][NextBatch]_vars

----------------------------------------------------------------------------
(* SpecGroups: batch uploads into a gallery that has been loaded and holds no
   photo yet *)

InitGroups ==
  /\ meta = EmptyMeta
  /\ chunks = EmptyFn
  /\ deletedLog = {}
  /\ photos = <<>>
  /\ albums = <<>>
  /\ loading = FALSE
  /\ error = NoError
  /\ loads = [l \in Slots |-> IF l = 1 THEN [IdleLoad EXCEPT !.pc = "done"] ELSE IdleLoad]
  /\ op = IdleOp
  /\ fan = EmptyFn
  /\ pipes = [i \in Pipes |-> IdlePipe]
  /\ batch = IdleBatch
  /\ now = 0
  /\ today = 1
  /\ nextPhoto = 1
  /\ nextAlbum = 1
  /\ view = NoView

SpecGroups == InitGroups /\ [][NextBatch]_vars

----------------------------------------------------------------------------
(* Properties *)

\* the step in which slot l hands its snapshot to fetchData / in which it rejects
LoadCompletes(l) == InFlight(l) /\ loads'[l].pc = "done"
LoadFails(l)     == InFlight(l) /\ loads'[l].pc = "failed"

\* photos.filter(p => p.albumId === album.id).length
photoCount(s, a) == Cardinality({i \in DOMAIN s : s[i].albumId = a})

\* C1: once a load has completed successfully, every in-memory photo with a
\* non-empty albumId refers to an album present in the in-memory albums.
C1_DanglingRepaired ==
  [][\A l \in Slots : LoadCompletes(l) =>
       \A i \in DOMAIN photos' :
          photos'[i].albumId # NoAlbum => photos'[i].albumId \in Ids(albums')]_vars

\* C2: when deletePhotoItem(p) succeeds for the only photo p of album A, A is
\* no longer in the album listing.
C2_OrphanAlbumRemoved ==
  [][(/\ op.kind = "deletePhoto" /\ op.pc = "ack" /\ op'.result = "ok"
      /\ op.albumId \in Ids(albums)
      /\ photoCount(photos, op.albumId) = 1)
     => op.albumId \notin Ids(albums')]_vars

\* C3: when updateAlbum(albumId, {theme: T2}, T1) succeeds with T2 # T1, no
\* album of the listing has theme T1 and every album that had T1 has T2.
C3_ThemeRenameComplete ==
  [][(/\ op.kind = "updateAlbum" /\ op.pc = "ack" /\ op'.result = "ok"
      /\ op.theme # op.oldTheme)
     => /\ \A i \in DOMAIN albums' : albums'[i].theme # op.oldTheme
        /\ \A i \in DOMAIN albums :
              albums[i].theme = op.oldTheme =>
                \E j \in DOMAIN albums' :
                   albums'[j].id = albums[i].id /\ albums'[j].theme = op.theme]_vars

\* C4: an uploadAndAddPhoto whose media upload, image decode or remote
\* persistence rejects surfaces the error, and no step of an upload that does
\* not succeed changes the in-memory photos or albums.
C4_UploadFailureLeavesState ==
  [][/\ (op.kind = "upload" /\ op.pc = "run" /\ pipes[1].pc \in PipeServerPcs
          /\ pipes'[1].pc = "idle")
         => (op'.pc = "done" /\ op'.result = "error")
     /\ (op'.kind = "upload" /\ op'.result # "ok")
         => UNCHANGED <<photos, albums>>]_vars

C4_Witness ==
  /\ op.kind = "upload" /\ op.pc = "done" /\ op.result = "error"
  /\ op.failedAt = "append"
  /\ photos # <<>> /\ albums # <<>>

\* C5: whatever the outcome of the deletion-log write, deletePhotoItem goes on
\* to remove the photo from its chunk.
C5_LogFailureSwallowed ==
  [][(op.kind = "deletePhoto" /\ op.pc = "log" /\ op' # op) => op'.pc = "read"]_vars

\* C6: when the reload that follows deleteAlbumItem(A) completes, A is absent
\* from the albums and no in-memory photo has albumId = A.
C6_DeletedAlbumDecoupled ==
  [][\A l \in Slots :
       (LoadCompletes(l) /\ loads[l].cause = "deleteAlbum")
       => /\ loads[l].arg \notin Ids(albums')
          /\ \A i \in DOMAIN photos' : photos'[i].albumId # loads[l].arg]_vars

\* the reload that concludes a successful transferAlbumPhotos(X, Y, true)
\* delivers its snapshot
TransferReloaded(l) ==
  /\ LoadCompletes(l) /\ loads[l].cause = "transfer"
  /\ op.kind = "transfer" /\ op.result = "ok" /\ op.deleteSource
  /\ op.albumId = loads[l].arg

\* every photo the view held in X is in Y, Y's photoCount has grown by X's
\* former photoCount, and X is absent from the albums
TransferLanded ==
  /\ \A i \in DOMAIN photos :
        photos[i].albumId = op.albumId =>
           \E j \in DOMAIN photos' :
              photos'[j].id = photos[i].id /\ photos'[j].albumId = op.target
  /\ photoCount(photos', op.target)
        = photoCount(photos, op.target) + photoCount(photos, op.albumId)
  /\ op.albumId \notin Ids(albums')

C8_LastIssuedWins ==
  [][\A l, k \in Slots :
       (/\ LoadCompletes(l) /\ loads[l].overtaken
        /\ k # l /\ loads[k].pc = "done" /\ ~loads[k].overtaken)
       => /\ photos' = SortByDateDesc(Assembled(loads[k]))
          /\ albums' = loads[k].albums]_vars

\* C8 amended: of two overlapping loads the one whose response arrives last
\* decides the final state: a call that a later call has overtaken still
\* installs its own snapshot.
C8_LastArrivedWins ==
  [][\A l \in Slots :
       (LoadCompletes(l) /\ loads[l].overtaken)
       => /\ photos' = SortByDateDesc(Assembled(loads'[l]))
          /\ albums' = loads'[l].albums]_vars

\* both calls are over, the overtaken one last, and the view is not the store's
C8_Witness ==
  /\ \A l \in Slots : ~InFlight(l)
  /\ ~loading
  /\ \E l, k \in Slots :
       /\ loads[l].pc = "done" /\ loads[l].overtaken
       /\ loads[k].pc = "done" /\ ~loads[k].overtaken
       /\ Assembled(loads[k]) # Assembled(loads[l])
       /\ photos = SortByDateDesc(Assembled(loads[l]))

\* C9 as stated: a load whose gateway fetch fails ends with loading = false,
\* an error recorded, and photos and albums both empty.
C9_FailedLoadLeavesEmpty ==
  [][\A l \in Slots : LoadFails(l) =>
       /\ loading' = FALSE /\ error' # NoError
       /\ photos' = <<>> /\ albums' = <<>>]_vars

\* C9 amended: a load whose gateway fetch fails ends with loading = false and
\* an error recorded, and does not change photos or albums.
C9_FailedLoadKeepsState ==
  [][\A l \in Slots : LoadFails(l) =>
       /\ loading' = FALSE /\ error' # NoError
       /\ UNCHANGED <<photos, albums>>]_vars

C9_Witness ==
  /\ \E l \in Slots : loads[l].pc = "failed"
  /\ \A l \in Slots : ~InFlight(l)
  /\ ~loading /\ error = FetchError
  /\ photos # <<>>

\* C10: no chunk of the store holds more than CHUNK_SIZE photos, also while the
\* addPhoto calls of a batch group overlap.
C10_ChunkCapacity == \A c \in DOMAIN chunks : Len(chunks[c]) <= CHUNK_SIZE

\* the step in which pipeline i's addPhoto resolves with its chunk handle
AddPhotoReturns(i) == pipes[i].pc \in {"union", "append"} /\ pipes'[i].pc = "stored"

\* C11: when addPhoto returns chunk handle h for photo p, p is stored in chunk
\* h and h is in the metadata document's photoChunkIds, also when the addPhoto
\* calls of a batch group overlap and each allocates a new chunk.
C11_ReturnedHandleHoldsPhoto ==
  [][\A i \in Pipes : AddPhotoReturns(i) =>
       /\ pipes'[i].target \in Range(meta'.photoChunkIds)
       /\ pipes'[i].target \in DOMAIN chunks'
       /\ pipes'[i].photo \in Range(chunks'[pipes'[i].target])]_vars


\* files of the batch call whose pipeline has been started
started == batch.next + Cardinality(Group)

\* C13: batchUploadPhotos has at most chunkSize (3) files started and not yet
\* completed, and it starts no file of the next group before every file of the
\* groups before it has completed.
C13_GroupsSequential ==
  [][/\ started' - batch'.completedCount <= chunkSize
     /\ Cardinality({i \in Pipes : pipes'[i].pc \notin {"idle", "returned"}}) <= chunkSize
     /\ (op.kind = "batch" /\ op' = op /\ batch'.next > batch.next)
          => batch.completedCount = batch'.next]_vars

\* the second group has just been started, the first one completed
C13_Witness ==
  /\ op.kind = "batch" /\ op.pc = "run"
  /\ batch.next = chunkSize
  /\ batch.completedCount = chunkSize
  /\ \E i \in Pipes : pipes[i].pc = "cloud"

\* the step in which pipeline i's file resolves and onProgress is invoked
OnProgress(i) == op.kind = "batch" /\ pipes[i].pc = "stored" /\ pipes'[i].pc # "stored"

\* C14: onProgress is invoked with completed values that never decrease and
\* never exceed total, and when the batch resolves the last value is total.
C14_ProgressMonotone ==
  [][/\ \A i \in Pipes : OnProgress(i) =>
          /\ batch'.completedCount >= batch.completedCount
          /\ batch'.completedCount <= batch'.total
     /\ (op'.kind = "batch" /\ op'.pc = "done" /\ op'.result = "ok")
          => batch'.completedCount = batch'.total]_vars

\* a batch of more than one group has resolved after its last invocation
C14_Witness ==
  /\ op.kind = "batch" /\ op.pc = "done" /\ op.result = "ok"
  /\ batch.total > chunkSize
  /\ batch.completedCount = batch.total

----------------------------------------------------------------------------
(* The gateway's updatePhoto and deletePhoto called with any photo id and
   chunk id, over any small store *)

GatewayChunks == {0, 1}

\* the chunk documents a store can hold: photos with distinct ids
ChunkData ==
  {<<>>} \cup
  {<<[id |-> p, albumId |-> NoAlbum, date |-> 1]>> : p \in 1..MaxPhotos} \cup
  {<<[id |-> pq[1], albumId |-> NoAlbum, date |-> 1],
     [id |-> pq[2], albumId |-> NoAlbum, date |-> 1]>> :
       pq \in {x \in (1..MaxPhotos) \X (1..MaxPhotos) : x[1] # x[2]}}

\* updatePhoto(photoId, chunkId, { albumId })
FbUpdatePhotoCall(p, c, a) ==
  /\ OpFree
  /\ op' = [IdleOp EXCEPT !.kind = "fbUpdatePhoto", !.pc = "read", !.photoId = p,
                          !.chunkId = c, !.albumId = a]
  /\ UNCHANGED <<store, local, flags, loads, fan, pipes, batch, fresh, view>>

\* updatePhoto resolves
FbUpdatePhotoReturn ==
  /\ op.kind = "fbUpdatePhoto" /\ op.pc = "ack"
  /\ op' = Resolve(op)
  /\ UNCHANGED <<store, local, flags, loads, fan, pipes, batch, fresh, view>>

\* deletePhoto(photoId, chunkId)
FbDeletePhotoCall(p, c) ==
  /\ OpFree
  /\ op' = [IdleOp EXCEPT !.kind = "fbDeletePhoto", !.pc = "read", !.photoId = p,
                          !.chunkId = c]
  /\ UNCHANGED <<store, local, flags, loads, fan, pipes, batch, fresh, view>>

\* deletePhoto resolves with { deletedAlbumId: undefined }
FbDeletePhotoReturn ==
  /\ op.kind = "fbDeletePhoto" /\ op.pc = "ack"
  /\ op' = Resolve(op)
  /\ UNCHANGED <<store, local, flags, loads, fan, pipes, batch, fresh, view>>

InitGateway ==
  /\ \E cs \in SUBSET GatewayChunks :
       /\ chunks \in [cs -> ChunkData]
       /\ \A c \in cs, d \in cs : c # d => Ids(chunks[c]) \cap Ids(chunks[d]) = {}
  /\ meta = [EmptyMeta EXCEPT !.photoChunkIds = <<0, 1>>]
  /\ deletedLog = {}
  /\ photos = <<>>
  /\ albums = <<>>
  /\ loading = FALSE
  /\ error = NoError
  /\ loads = [l \in Slots |-> IF l = 1 THEN [IdleLoad EXCEPT !.pc = "done"] ELSE IdleLoad]
  /\ op = IdleOp
  /\ fan = EmptyFn
  /\ pipes = [i \in Pipes |-> IdlePipe]
  /\ batch = IdleBatch
  /\ now = 1
  /\ today = 1
  /\ nextPhoto = MaxPhotos + 1
  /\ nextAlbum = 1
  /\ view = NoView

NextGateway ==
  \/ \E p \in 1..MaxPhotos, c \in GatewayChunks, a \in 0..MaxAlbums : FbUpdatePhotoCall(p, c, a)
  \/ \E p \in 1..MaxPhotos, c \in GatewayChunks : FbDeletePhotoCall(p, c)
  \/ UpdatePhotoRead
  \/ UpdatePhotoWrite
  \/ FbUpdatePhotoReturn
  \/ DeletePhotoRead
  \/ DeletePhotoWrite
  \/ FbDeletePhotoReturn
  \/ OpFail

SpecGateway == InitGateway /\ [][NextGateway]_vars

\* the photo a gateway call names is not in the chunk it names
AbsentFromChunk == ~ChunkExists(op.chunkId) \/ op.photoId \notin Ids(chunks[op.chunkId])

\* C12: updatePhoto and deletePhoto of the gateway reject whenever the photo is
\* absent from the named chunk, also when the chunk document does not exist, and
\* then leave every stored document unchanged.
C12_AbsentPhotoRejected ==
  [][(/\ op.kind \in {"fbUpdatePhoto", "fbDeletePhoto"}
      /\ op.pc = "read"
      /\ AbsentFromChunk
      /\ op' # op)
     => (op'.pc = "done" /\ op'.result = "error" /\ UNCHANGED store)]_vars


----------------------------------------------------------------------------
(* Components: values derived by pure functions. The engine is at rest over a
   loaded, empty gallery while a component computes. *)

EngineAtRest ==
  /\ meta = EmptyMeta
  /\ chunks = EmptyFn
  /\ deletedLog = {}
  /\ photos = <<>>
  /\ albums = <<>>
  /\ loading = FALSE
  /\ error = NoError
  /\ loads = [l \in Slots |-> IF l = 1 THEN [IdleLoad EXCEPT !.pc = "done"] ELSE IdleLoad]
  /\ op = IdleOp
  /\ fan = EmptyFn
  /\ pipes = [i \in Pipes |-> IdlePipe]
  /\ batch = IdleBatch
  /\ now = 0
  /\ today = 1
  /\ nextPhoto = 1
  /\ nextAlbum = 1

\* number of elements of s equal to x
Count(s, x) == Cardinality({i \in DOMAIN s : s[i] = x})

IsPermutation(s, t) ==
  /\ Len(s) = Len(t)
  /\ \A x \in Range(s) \cup Range(t) : Count(s, x) = Count(t, x)

----------------------------------------------------------------------------
(* Gallery: filteredPhotos, step 2 (layout optimization on a 6-column grid) *)

AspectRatios == {"landscape", "portrait", "square"}

\* photo.aspectRatio === 'landscape' ? 2 : 1
span(photo) == IF photo.aspectRatio = "landscape" THEN 2 ELSE 1

\* gapAhead that swaps whatever follows the portrait photo
gapAhead_AnyNext(startCol, photo1, photo2) ==
  startCol = 4 /\ span(photo1) = 1

\* startCol === 4 && photo1Span === 1 && photo2Span === 2
gapAhead(startCol, photo1, photo2) ==
  startCol = 4 /\ span(photo1) = 1 /\ span(photo2) = 2

\* swapAt that writes photo2 to both places
swapAt_Overwrite(s, i) == [s EXCEPT ![i] = s[i + 1], ![i + 1] = s[i + 1]]

\* [layoutOptimizedPhotos[i], layoutOptimizedPhotos[i + 1]] = [photo2, photo1]
swapAt(s, i) == [s EXCEPT ![i] = s[i + 1], ![i + 1] = s[i]]

\* the for loop from (1-based) index i on, with the running column count col
RECURSIVE layoutFrom(_, _, _)
layoutFrom(s, i, col) ==
  IF i > Len(s) - 1 THEN s
  ELSE LET t == IF gapAhead(col % 6, s[i], s[i + 1]) THEN swapAt(s, i) ELSE s
       IN layoutFrom(t, i + 1, col + span(t[i]))

layoutOptimizedPhotos(sortedPhotos) == layoutFrom(sortedPhotos, 1, 0)

\* the sorted lists of n photos the balancer is given: distinct photos, any shapes
SortedPhotos(n) ==
  {[i \in 1..n |-> [id |-> i, aspectRatio |-> f[i]]] : f \in [1..n -> AspectRatios]}

InitLayout ==
  /\ EngineAtRest
  /\ \E n \in 0..MaxLen : \E s \in SortedPhotos(n) :
       view = [of |-> "Gallery", pc |-> "sorted", sortedPhotos |-> s,
               filteredPhotos |-> <<>>, relaid |-> <<>>]

\* useMemo computes filteredPhotos
GalleryLayout ==
  /\ view.of = "Gallery" /\ view.pc = "sorted"
  /\ view' = [view EXCEPT !.pc = "laid",
                          !.filteredPhotos = layoutOptimizedPhotos(view.sortedPhotos)]
  /\ UNCHANGED engine

\* the balancer runs over its own output
GalleryRelayout ==
  /\ view.of = "Gallery" /\ view.pc = "laid"
  /\ view' = [view EXCEPT !.pc = "relaid",
                          !.relaid = layoutOptimizedPhotos(view.filteredPhotos)]
  /\ UNCHANGED engine

NextLayout == GalleryLayout \/ GalleryRelayout

SpecLayout == InitLayout /\ [][NextLayout]_vars

\* C15: the layout balancer is a fixed point on its own output:
\* balance(balance(s)) = balance(s) for every photo sequence s.
C15_LayoutIdempotent ==
  (view.of = "Gallery" /\ view.pc = "relaid") => view.relaid = view.filteredPhotos

\* the balancer has run twice over a list in which it had to swap
C15_Witness ==
  /\ view.of = "Gallery" /\ view.pc = "relaid"
  /\ view.filteredPhotos # view.sortedPhotos

\* C16: the balancer's output is a permutation of its input: the same photos,
\* none dropped and none duplicated.
C16_LayoutPermutes ==
  (view.of = "Gallery" /\ view.pc \in {"laid", "relaid"})
    => /\ IsPermutation(view.sortedPhotos, view.filteredPhotos)
       /\ view.pc = "relaid" => IsPermutation(view.filteredPhotos, view.relaid)

\* the balancer has swapped a pair of the list
C16_Witness ==
  /\ view.of = "Gallery" /\ view.pc = "laid"
  /\ Cardinality({i \in DOMAIN view.sortedPhotos :
                    view.filteredPhotos[i] # view.sortedPhotos[i]}) >= 2


----------------------------------------------------------------------------
(* imageConfig: calculateOptimalImageWidth as the photo viewer calls it with
   window.innerWidth and window.devicePixelRatio. Screen widths are multiples
   of 100 px; pixel ratios are counted in quarters, so targetWidth is kept
   fourfold (target4 = 4 * targetWidth). *)

BREAKPOINTS         == <<800, 1200, 1600, 2000, 2400>>
MAX_WIDTH_LANDSCAPE == 2400
MAX_WIDTH_PORTRAIT  == 1800
MIN_WIDTH           == 800

Max(a, b) == IF a > b THEN a ELSE b

\* Math.min(pixelRatio || 1, 2), in quarters
effectivePixelRatio(pixelRatio4) == Min(IF pixelRatio4 = 0 THEN 4 ELSE pixelRatio4, 8)

\* optimal with the first breakpoint as the fallback
optimal_FirstFallback(target4) ==
  IF \E k \in DOMAIN BREAKPOINTS : 4 * BREAKPOINTS[k] >= target4
  THEN BREAKPOINTS[CHOOSE k \in DOMAIN BREAKPOINTS :
                      /\ 4 * BREAKPOINTS[k] >= target4
                      /\ \A j \in 1..(k - 1) : 4 * BREAKPOINTS[j] < target4]
  ELSE BREAKPOINTS[1]

\* BREAKPOINTS.find(bp => bp >= targetWidth) || BREAKPOINTS[BREAKPOINTS.length - 1]
optimal(target4) ==
  IF \E k \in DOMAIN BREAKPOINTS : 4 * BREAKPOINTS[k] >= target4
  THEN BREAKPOINTS[CHOOSE k \in DOMAIN BREAKPOINTS :
                      /\ 4 * BREAKPOINTS[k] >= target4
                      /\ \A j \in 1..(k - 1) : 4 * BREAKPOINTS[j] < target4]
  ELSE BREAKPOINTS[Len(BREAKPOINTS)]

maxWidth(aspectRatio) ==
  IF aspectRatio = "portrait" THEN MAX_WIDTH_PORTRAIT ELSE MAX_WIDTH_LANDSCAPE

calculateOptimalImageWidth(screenWidth, pixelRatio4, aspectRatio) ==
  Max(Min(optimal(screenWidth * effectivePixelRatio(pixelRatio4)), maxWidth(aspectRatio)),
      MIN_WIDTH)

\* window.innerWidth and window.devicePixelRatio (a positive number) as read
ScreenWidths == {100 * k : k \in 0..MaxScreen}
PixelRatios  == 1..MaxRatio

NoReading == [screenWidth |-> 0, pixelRatio |-> 0, optimalWidth |-> 0]

\* the viewer's state for a current photo of shape a; last is the reading and
\* the width before the latest resize
Viewer(w, r, a, last) ==
  [of |-> "PhotoViewer", screenWidth |-> w, pixelRatio |-> r, aspectRatio |-> a,
   optimalWidth |-> calculateOptimalImageWidth(w, r, a), resized |-> last # NoReading,
   last |-> last]

InitSizing ==
  /\ EngineAtRest
  /\ \E w \in ScreenWidths, r \in PixelRatios, a \in AspectRatios :
       view = Viewer(w, r, a, NoReading)

Reading == [screenWidth |-> view.screenWidth, pixelRatio |-> view.pixelRatio,
            optimalWidth |-> view.optimalWidth]

\* the window is resized: updateWidth runs with the new innerWidth
ViewerResize(w) ==
  /\ view.of = "PhotoViewer"
  /\ w # view.screenWidth
  /\ view' = Viewer(w, view.pixelRatio, view.aspectRatio, Reading)
  /\ UNCHANGED engine

\* the page is zoomed or moved to another display: a new devicePixelRatio
ViewerZoom(r) ==
  /\ view.of = "PhotoViewer"
  /\ r # view.pixelRatio
  /\ view' = Viewer(view.screenWidth, r, view.aspectRatio, Reading)
  /\ UNCHANGED engine

NextSizing ==
  \/ \E w \in ScreenWidths : ViewerResize(w)
  \/ \E r \in PixelRatios : ViewerZoom(r)

SpecSizing == InitSizing /\ [][NextSizing]_vars

\* C17: for a fixed aspect class, calculateOptimalImageWidth is non-decreasing
\* in the viewport width and non-decreasing in the pixel ratio.
C17_SizingMonotone ==
  (/\ view.of = "PhotoViewer" /\ view.resized
   /\ view.last.screenWidth <= view.screenWidth
   /\ view.last.pixelRatio <= view.pixelRatio)
    => view.last.optimalWidth <= view.optimalWidth

\* a higher pixel ratio below the clamp has raised the width of a wide screen
C17_Witness ==
  /\ view.of = "PhotoViewer" /\ view.resized
  /\ view.last.screenWidth = view.screenWidth
  /\ view.last.pixelRatio < view.pixelRatio
  /\ view.pixelRatio < 8
  /\ view.last.optimalWidth < view.optimalWidth


----------------------------------------------------------------------------
(* cloudinary: getOptimizedImageUrl. A URL is a sequence of pieces: the
   substrings the function looks for, a width parameter "w_<digits>" and
   text in which none of them occurs. *)

Piece(str)      == [text |-> str, digits |-> 0]
WidthParam(n)   == [text |-> "w_", digits |-> n]

\* the width argument at the call sites: thumbnails and the default
Widths == {100, 600}

UrlPieces ==
  {Piece("cloudinary.com"), Piece("/upload/"), Piece("f_auto,q_auto"), Piece("abc")}
    \cup {WidthParam(n) : n \in Widths}

\* url.includes('cloudinary.com')
includesHost(url) == \E i \in DOMAIN url : url[i] = Piece("cloudinary.com")

\* url.includes('/upload/f_auto,q_auto')
includesTransformation(url) ==
  \E i \in 1..(Len(url) - 1) :
     url[i] = Piece("/upload/") /\ url[i + 1] = Piece("f_auto,q_auto")

\* url.replace(/w_\d+/, `w_${width}`): the first match only
replaceWidth(url, width) ==
  IF \E i \in DOMAIN url : url[i].text = "w_"
  THEN LET first == CHOOSE i \in DOMAIN url :
                      /\ url[i].text = "w_"
                      /\ \A j \in 1..(i - 1) : url[j].text # "w_"
       IN [url EXCEPT ![first] = WidthParam(width)]
  ELSE url

\* url.split('/upload/'): the places of the separator
separators(url) == {i \in DOMAIN url : url[i] = Piece("/upload/")}

getOptimizedImageUrl(url, width) ==
  IF ~includesHost(url) THEN url
  ELSE IF includesTransformation(url) THEN replaceWidth(url, width)
  ELSE IF Cardinality(separators(url)) # 1 THEN url
  ELSE LET at == CHOOSE i \in separators(url) : TRUE
       IN SubSeq(url, 1, at - 1)
            \o <<Piece("/upload/"), Piece("f_auto,q_auto"), Piece(","),
                 WidthParam(width), Piece("/")>>
            \o SubSeq(url, at + 1, Len(url))

\* the URLs of n pieces
Urls(n) == [1..n -> UrlPieces]

InitUrl ==
  /\ EngineAtRest
  /\ \E n \in 0..MaxUrl : \E u \in Urls(n) : \E w \in Widths :
       view = [of |-> "img", pc |-> "url", url |-> u, width |-> w,
               once |-> <<>>, twice |-> <<>>]

\* src={getOptimizedImageUrl(photo.url, width)}
Optimize ==
  /\ view.of = "img" /\ view.pc = "url"
  /\ view' = [view EXCEPT !.pc = "once",
                          !.once = getOptimizedImageUrl(view.url, view.width)]
  /\ UNCHANGED engine

\* the delivery URL is passed through the function again
Reoptimize ==
  /\ view.of = "img" /\ view.pc = "once"
  /\ view' = [view EXCEPT !.pc = "twice",
                          !.twice = getOptimizedImageUrl(view.once, view.width)]
  /\ UNCHANGED engine

NextUrl == Optimize \/ Reoptimize

SpecUrl == InitUrl /\ [][NextUrl]_vars

\* C18: for every URL u and width w, getOptimizedImageUrl(getOptimizedImageUrl(u, w), w)
\* = getOptimizedImageUrl(u, w): media-host URLs with or without a
\* transformation segment, and foreign URLs.
C18_UrlIdempotent ==
  (view.of = "img" /\ view.pc = "twice") => view.twice = view.once


----------------------------------------------------------------------------
(* useGallery: albumsWithStats. An upload date 'YYYY-MM-DD' is the calendar
   year written in it and whether it is 1 January; a capture date is the year
   of the instant on the calendar of the browser that read it from the file
   and now shows it. A name is its rank in the collation order of
   localeCompare. *)

NoDate == [year |-> 0, newYearsDay |-> FALSE]
Dates  == {[year |-> 2022, newYearsDay |-> FALSE],
           [year |-> 2023, newYearsDay |-> FALSE],
           [year |-> 2023, newYearsDay |-> TRUE]}

\* p.takenAt || p.date
bestDate(p) == IF p.takenAt # NoDate THEN p.takenAt ELSE p.date

\* new Date(d).getFullYear(): a date-only string is read as midnight UTC, and
\* the year is the one of the local calendar, where west of Greenwich midnight
\* UTC of 1 January is still 31 December
getFullYear(d, zone) == IF zone = "west" /\ d.newYearsDay THEN d.year - 1 ELSE d.year

\* photos.filter(p => p.albumId === album.id)
albumPhotos(ps, album) == {i \in DOMAIN ps : ps[i].albumId = album.id}

SetMin(S) == CHOOSE x \in S : \A y \in S : x <= y
SetMax(S) == CHOOSE x \in S : \A y \in S : x >= y

\* { ...album, photoCount, yearRange }
withStats(ps, album, zone) ==
  LET mine  == albumPhotos(ps, album)
      years == {getFullYear(bestDate(ps[i]), zone) : i \in mine}
  IN [id |-> album.id, name |-> album.name,
      photoCount |-> Cardinality(mine),
      yearRange |-> IF mine # {}
                    THEN [defined |-> TRUE, start |-> SetMin(years), end |-> SetMax(years)]
                    ELSE [defined |-> FALSE, start |-> 0, end |-> 0]]

\* a.yearRange?.end || 0
endYear(a) == IF a.yearRange.defined THEN a.yearRange.end ELSE 0

\* compareAlbums with the years in ascending order
compareAlbums_Ascending(a, b) ==
  IF endYear(a) # endYear(b) THEN endYear(a) - endYear(b) ELSE a.name - b.name

\* the comparator: endYearB - endYearA, then a.name.localeCompare(b.name)
compareAlbums(a, b) ==
  IF endYear(a) # endYear(b) THEN endYear(b) - endYear(a) ELSE a.name - b.name

\* Array.prototype.sort with the comparator: stable
RECURSIVE insertAlbum(_, _)
insertAlbum(sorted, a) ==
  IF sorted = <<>> THEN <<a>>
  ELSE IF compareAlbums(Head(sorted), a) <= 0
       THEN <<Head(sorted)>> \o insertAlbum(Tail(sorted), a)
       ELSE <<a>> \o sorted

RECURSIVE sortAlbums(_)
sortAlbums(s) ==
  IF s = <<>> THEN <<>>
  ELSE insertAlbum(sortAlbums(SubSeq(s, 1, Len(s) - 1)), s[Len(s)])

albumsWithStats(ps, as, zone) ==
  sortAlbums([i \in DOMAIN as |-> withStats(ps, as[i], zone)])

\* the photo lists and album lists the memo is computed from
StatPhotos(n) ==
  [1..n -> [albumId : 0..2, date : Dates,
            takenAt : {NoDate} \cup {d \in Dates : ~d.newYearsDay}]]
StatAlbums ==
  {<<[id |-> 1, name |-> n[1]], [id |-> 2, name |-> n[2]]>> : n \in {1, 2} \X {1, 2}}

InitStats ==
  /\ EngineAtRest
  /\ \E n \in 0..MaxStat : \E ps \in StatPhotos(n) : \E as \in StatAlbums :
     \E z \in {"west", "east"} :
       view = [of |-> "albumsWithStats", pc |-> "stale", photos |-> ps, albums |-> as,
               zone |-> z, albumsWithStats |-> <<>>]

\* useMemo recomputes albumsWithStats
ComputeStats ==
  /\ view.of = "albumsWithStats" /\ view.pc = "stale"
  /\ view' = [view EXCEPT !.pc = "fresh",
                !.albumsWithStats = albumsWithStats(view.photos, view.albums, view.zone)]
  /\ UNCHANGED engine

\* a photo's album is changed in the list and the memo is stale again
StatsPhotoMoved(i, a) ==
  /\ view.of = "albumsWithStats" /\ view.pc = "fresh"
  /\ i \in DOMAIN view.photos
  /\ view.photos[i].albumId # a
  /\ view' = [view EXCEPT !.pc = "stale", !.photos[i].albumId = a]
  /\ UNCHANGED engine

NextStats ==
  \/ ComputeStats
  \/ \E i \in 1..MaxStat, a \in 0..2 : StatsPhotoMoved(i, a)

SpecStats == InitStats /\ [][NextStats]_vars

\* the calendar year written in the photo's capture date, else its upload date
yearOf(p) == bestDate(p).year

\* C19: for every album, photoCount is the number of photos whose albumId is the
\* album's id, and yearRange is the least and the greatest year(takenAt, else
\* upload date) over exactly those photos, absent when the album has none.
C19_AlbumStatistics ==
  (view.of = "albumsWithStats" /\ view.pc = "fresh") =>
    \A k \in DOMAIN view.albumsWithStats :
      LET a    == view.albumsWithStats[k]
          mine == {i \in DOMAIN view.photos : view.photos[i].albumId = a.id}
      IN /\ a.photoCount = Cardinality(mine)
         /\ a.yearRange.defined <=> mine # {}
         /\ mine # {} =>
              /\ \E i \in mine : a.yearRange.start = yearOf(view.photos[i])
              /\ \E i \in mine : a.yearRange.end = yearOf(view.photos[i])
              /\ \A i \in mine : /\ a.yearRange.start <= yearOf(view.photos[i])
                                 /\ yearOf(view.photos[i]) <= a.yearRange.end

\* C20: the album listing is sorted by yearRange.end descending, an album
\* without photos counting as year 0 and so coming last, ties in name order.
C20_AlbumOrdering ==
  (view.of = "albumsWithStats" /\ view.pc = "fresh") =>
    /\ IsPermutation([i \in DOMAIN view.albumsWithStats |-> view.albumsWithStats[i].id],
                     [i \in DOMAIN view.albums |-> view.albums[i].id])
    /\ \A i, j \in DOMAIN view.albumsWithStats : i < j =>
         LET a == view.albumsWithStats[i]
             b == view.albumsWithStats[j]
         IN /\ endYear(a) >= endYear(b)
            /\ endYear(a) = endYear(b) => a.name <= b.name
            /\ a.photoCount = 0 => b.photoCount = 0

\* the sort has moved an album with photos ahead of an album without, or ahead
\* of an album of the same last year with a later name
C20_Witness ==
  /\ view.of = "albumsWithStats" /\ view.pc = "fresh"
  /\ Len(view.albumsWithStats) = 2
  /\ view.albumsWithStats[1].id = 2
  /\ view.albumsWithStats[1].photoCount > 0
  /\ view.albumsWithStats[2].photoCount > 0
  /\ endYear(view.albumsWithStats[1]) = endYear(view.albumsWithStats[2])
  /\ view.albumsWithStats[1].name < view.albumsWithStats[2].name


----------------------------------------------------------------------------
(* Gallery: filteredPhotos, step 1 (album scope and search filter). A string
   is a sequence of characters; an optional field that is not set is
   Undefined. *)

Undefined == <<"undefined">>

\* String.prototype.toLowerCase
toLowerCase(str) ==
  [i \in DOMAIN str |-> IF str[i] = "A" THEN "a" ELSE IF str[i] = "B" THEN "b" ELSE str[i]]

\* String.prototype.includes
includes(str, q) ==
  \E k \in 0..(Len(str) - Len(q)) : SubSeq(str, k + 1, k + Len(q)) = q

\* matchesQuery comparing the lower-cased fields with the query as typed
matchesQuery_AsTyped(photo, as, searchQuery) ==
  LET query == searchQuery
      own   == {i \in DOMAIN as : as[i].id = photo.albumId}
      best  == IF photo.takenAt \in {Undefined, <<>>} THEN photo.date ELSE photo.takenAt
  IN \/ includes(toLowerCase(photo.title), query)
     \/ photo.locationName # Undefined /\ includes(toLowerCase(photo.locationName), query)
     \/ includes(toLowerCase(best), query)
     \/ \E i \in own : includes(toLowerCase(as[i].name), query)
     \/ \E i \in own : includes(toLowerCase(as[i].theme), query)

\* the search branch of the filter callback: query = searchQuery.toLowerCase(),
\* photoAlbum = albums.find(a => a.id === photo.albumId), the five includes
matchesQuery(photo, as, searchQuery) ==
  LET query == toLowerCase(searchQuery)
      own   == {i \in DOMAIN as : as[i].id = photo.albumId}
      best  == IF photo.takenAt \in {Undefined, <<>>} THEN photo.date ELSE photo.takenAt
  IN \/ includes(toLowerCase(photo.title), query)
     \/ photo.locationName # Undefined /\ includes(toLowerCase(photo.locationName), query)
     \/ includes(toLowerCase(best), query)
     \/ \E i \in own : includes(toLowerCase(as[i].name), query)
     \/ \E i \in own : includes(toLowerCase(as[i].theme), query)

\* the filter callback: album scope (albumId 0 is no scope), then the search
keepsPhoto(photo, as, albumId, searchQuery) ==
  IF albumId # NoAlbum /\ photo.albumId # albumId THEN FALSE
  ELSE IF searchQuery # <<>> THEN matchesQuery(photo, as, searchQuery)
  ELSE TRUE

\* what is typed into the search box: up to n characters
Typed(n) == UNION {[1..k -> {"a", "A", "b"}] : k \in 0..n}

InitSearch ==
  /\ EngineAtRest
  /\ \E t \in {<<"A", "b">>, <<"b">>}, l \in {Undefined, <<"B", "a">>},
        k \in {Undefined, <<>>, <<"a", "a">>}, d \in {<<"b", "b">>},
        pa \in 0..2, nm \in {<<"a">>, <<"A", "B">>}, th \in {<<>>, <<"b", "a">>},
        scope \in 0..1, q \in Typed(MaxQuery) :
       view = [of |-> "search", pc |-> "typed",
               photo |-> [id |-> 1, albumId |-> pa, title |-> t, locationName |-> l,
                          takenAt |-> k, date |-> d],
               albums |-> <<[id |-> 1, name |-> nm, theme |-> th]>>,
               albumId |-> scope, searchQuery |-> q, kept |-> FALSE]

\* useMemo recomputes filteredPhotos
GalleryFilter ==
  /\ view.of = "search" /\ view.pc = "typed"
  /\ view' = [view EXCEPT !.pc = "filtered",
                !.kept = keepsPhoto(view.photo, view.albums, view.albumId, view.searchQuery)]
  /\ UNCHANGED engine

\* onChange of the search box: setSearchQuery(e.target.value), one character
\* more or one less
GalleryType(q) ==
  /\ view.of = "search" /\ view.pc = "filtered"
  /\ Len(q) - Len(view.searchQuery) \in {-1, 1}
  /\ view' = [view EXCEPT !.pc = "typed", !.searchQuery = q]
  /\ UNCHANGED engine

NextSearch == GalleryFilter \/ \E q \in Typed(MaxQuery) : GalleryType(q)

SpecSearch == InitSearch /\ [][NextSearch]_vars

\* q in lower case occurs in field f in lower case
Occurs(q, f) ==
  f # Undefined /\
  \E k \in 0..(Len(f) - Len(q)) :
     \A j \in 1..Len(q) : toLowerCase(f)[k + j] = toLowerCase(q)[j]

\* C21: a photo of the view's album scope is kept exactly when the lower-cased
\* query is a substring of its lower-cased title, location name, capture date
\* (upload date when none), owning album's name or owning album's theme; the
\* empty query keeps every photo.
C21_SearchFilter ==
  (view.of = "search" /\ view.pc = "filtered"
     /\ (view.albumId = NoAlbum \/ view.photo.albumId = view.albumId)) =>
    LET p == view.photo
        q == view.searchQuery
        owner == {a \in Range(view.albums) : a.id = p.albumId}
    IN view.kept <=>
         \/ q = <<>>
         \/ Occurs(q, p.title)
         \/ Occurs(q, p.locationName)
         \/ Occurs(q, IF p.takenAt \in {Undefined, <<>>} THEN p.date ELSE p.takenAt)
         \/ \E a \in owner : Occurs(q, a.name) \/ Occurs(q, a.theme)

\* an upper-case query has kept a photo for its album's name alone
C21_Witness ==
  /\ view.of = "search" /\ view.pc = "filtered" /\ view.kept
  /\ view.searchQuery = <<"A", "b">>
  /\ view.photo.title = <<"b">> /\ view.photo.locationName = Undefined
  /\ view.photo.albumId = 1


----------------------------------------------------------------------------
(* Gallery: pagination. The view holds the filtered list, the page index,
   whether the page-reset effect is still due, and what the last render
   computed: the page's slice and the page-number buttons. *)

ITEMS_PER_PAGE == 20

\* Math.ceil(filteredPhotos.length / ITEMS_PER_PAGE)
totalPages(filteredPhotos) ==
  IF Len(filteredPhotos) % ITEMS_PER_PAGE = 0 THEN Len(filteredPhotos) \div ITEMS_PER_PAGE
  ELSE Len(filteredPhotos) \div ITEMS_PER_PAGE + 1

\* Array.prototype.slice(start, end) with 0 <= start <= end
slice(arr, start, end) ==
  SubSeq(arr, start + 1, IF end < Len(arr) THEN end ELSE Len(arr))

\* paginatedPhotos with the start index one page late
paginatedPhotos_FromNext(filteredPhotos, currentPage) ==
  LET startIndex == currentPage * ITEMS_PER_PAGE
  IN slice(filteredPhotos, startIndex, startIndex + ITEMS_PER_PAGE)

paginatedPhotos(filteredPhotos, currentPage) ==
  LET startIndex == (currentPage - 1) * ITEMS_PER_PAGE
  IN slice(filteredPhotos, startIndex, startIndex + ITEMS_PER_PAGE)

\* the page numbers of the buttons Array.from({length: Math.min(5, totalPages)}) renders
pageNums(pages, currentPage) ==
  [k \in 1..(IF pages < 5 THEN pages ELSE 5) |->
     LET i  == k - 1
         p1 == IF pages > 5 /\ currentPage > 3 THEN currentPage - 2 + i ELSE i + 1
     IN IF pages > 5 /\ p1 > pages THEN pages - 4 + i ELSE p1]

\* one render of the component
render(filteredPhotos, currentPage, resetDue) ==
  [of |-> "pages", filteredPhotos |-> filteredPhotos, currentPage |-> currentPage,
   resetDue |-> resetDue,
   paginatedPhotos |-> paginatedPhotos(filteredPhotos, currentPage),
   pageNums |-> pageNums(totalPages(filteredPhotos), currentPage)]

\* a filtered list of n photos, newest first
Filtered(n) == [i \in 1..n |-> n + 1 - i]

InitPages ==
  /\ EngineAtRest
  /\ \E n \in 0..MaxItems : view = render(Filtered(n), 1, FALSE)

\* handlePageChange
handlePageChange(page) ==
  /\ view.of = "pages" /\ ~view.resetDue
  /\ totalPages(view.filteredPhotos) > 1
  /\ view' = render(view.filteredPhotos, page, FALSE)
  /\ UNCHANGED engine

\* the previous button, disabled on page 1
GalleryPrev ==
  /\ view.of = "pages" /\ view.currentPage # 1
  /\ handlePageChange(view.currentPage - 1)

\* the next button, disabled on the last page
GalleryNext ==
  /\ view.of = "pages" /\ view.currentPage # totalPages(view.filteredPhotos)
  /\ view.currentPage <= totalPages(Filtered(MaxItems))
  /\ handlePageChange(view.currentPage + 1)

\* a page-number button
GalleryPage(k) ==
  /\ view.of = "pages" /\ k \in DOMAIN view.pageNums
  /\ handlePageChange(view.pageNums[k])

\* the search query or the album scope changes: the list is filtered again
\* and rendered with the page index as it is; the reset effect is due
GalleryQuery(n) ==
  /\ view.of = "pages" /\ ~view.resetDue
  /\ view' = render(Filtered(n), view.currentPage, TRUE)
  /\ UNCHANGED engine

\* useEffect(() => setCurrentPage(1), [searchQuery, albumId])
GalleryResetPage ==
  /\ view.of = "pages" /\ view.resetDue
  /\ view' = render(view.filteredPhotos, 1, FALSE)
  /\ UNCHANGED engine

\* the hook's photos change (a photo deleted, a load finished): the list is
\* filtered again; neither dependency of the reset effect has changed
GalleryPhotos(n) ==
  /\ view.of = "pages" /\ ~view.resetDue
  /\ view' = render(Filtered(n), view.currentPage, FALSE)
  /\ UNCHANGED engine

NextPages ==
  \/ GalleryPrev
  \/ GalleryNext
  \/ \E k \in 1..5 : GalleryPage(k)
  \/ \E n \in 0..MaxItems : GalleryQuery(n)
  \/ GalleryResetPage
  \/ \E n \in 0..MaxItems : GalleryPhotos(n)

SpecPages == InitPages /\ [][NextPages]_vars

RECURSIVE Concat(_, _, _)
\* pages 1..k of the list, one after another
Concat(arr, k, acc) ==
  IF k = 0 THEN acc ELSE Concat(arr, k - 1, paginatedPhotos(arr, k) \o acc)

InRange == view.currentPage \in 1..totalPages(view.filteredPhotos)

\* C22: a list of n items has ceil(n / 20) pages; page k holds the items at
\* positions 20(k-1)+1 .. min(20k, n) in their order; the pages together hold
\* every item exactly once.
C22_Pagination ==
  view.of = "pages" =>
    LET arr == view.filteredPhotos
        n   == Len(arr)
        tp  == totalPages(arr)
    IN /\ tp >= 0 /\ tp * ITEMS_PER_PAGE >= n /\ (tp - 1) * ITEMS_PER_PAGE < n
       /\ InRange =>
            LET k  == view.currentPage
                hi == IF ITEMS_PER_PAGE * k < n THEN ITEMS_PER_PAGE * k ELSE n
            IN /\ Len(view.paginatedPhotos) = hi - ITEMS_PER_PAGE * (k - 1)
               /\ \A j \in 1..Len(view.paginatedPhotos) :
                    view.paginatedPhotos[j] = arr[ITEMS_PER_PAGE * (k - 1) + j]
       /\ Concat(arr, tp, <<>>) = arr

\* the last, partly filled page of a list of several pages is shown
C22_Witness ==
  /\ view.of = "pages" /\ InRange
  /\ view.currentPage = 3 /\ Len(view.filteredPhotos) = 45
  /\ Len(view.paginatedPhotos) = 5

\* C23: for totalPages >= 1 and currentPage in 1..totalPages the page-number
\* buttons are min(5, totalPages) distinct consecutive page numbers within
\* 1..totalPages and include currentPage.
C23_PageWindow ==
  (view.of = "pages" /\ InRange) =>
    LET tp == totalPages(view.filteredPhotos)
        b  == view.pageNums
    IN /\ Len(b) = (IF tp < 5 THEN tp ELSE 5)
       /\ \A k \in DOMAIN b : b[k] \in 1..tp
       /\ \A k \in DOMAIN b : k > 1 => b[k] = b[k - 1] + 1
       /\ \E k \in DOMAIN b : b[k] = view.currentPage

\* C29: the page index is within 1..max(1, totalPages) whenever no page reset
\* is due, also after the filtered list has shrunk.
C29_PageInRange ==
  (view.of = "pages" /\ ~view.resetDue) =>
    LET tp == totalPages(view.filteredPhotos)
    IN view.currentPage \in 1..(IF tp > 1 THEN tp ELSE 1)


----------------------------------------------------------------------------
(* App: the signed-in user, edit mode, the active tab, the selected album and
   the modals. user 0 is null, selectedAlbumId 0 is null. *)

InitApp ==
  /\ EngineAtRest
  /\ view = [of |-> "app", activeTab |-> "home", selectedAlbumId |-> NoAlbum,
             user |-> 0, isEditMode |-> FALSE,
             isUploadOpen |-> FALSE, isCreateAlbumOpen |-> FALSE,
             editingAlbum |-> NoAlbum]

\* the auth listener keeping edit mode as it is
AuthStateChanged_KeepMode(currentUser) ==
  /\ view.of = "app"
  /\ view' = [view EXCEPT !.user = currentUser]
  /\ UNCHANGED engine

\* the onAuthStateChanged callback
AuthStateChanged(currentUser) ==
  /\ view.of = "app"
  /\ view' = [view EXCEPT !.user = currentUser,
                !.isEditMode = IF currentUser = 0 THEN FALSE ELSE @]
  /\ UNCHANGED engine

handleEditModeToggle ==
  /\ view.of = "app"
  /\ view' = IF view.user # 0 THEN [view EXCEPT !.isEditMode = ~@] ELSE view
  /\ UNCHANGED engine

handleTabChange(tab) ==
  /\ view.of = "app"
  /\ view' = [view EXCEPT !.activeTab = tab, !.selectedAlbumId = NoAlbum]
  /\ UNCHANGED engine

\* a click on an album of the Albums view
handleAlbumClick(albumId) ==
  /\ view.of = "app" /\ view.activeTab = "albums" /\ view.selectedAlbumId = NoAlbum
  /\ view' = [view EXCEPT !.selectedAlbumId = albumId]
  /\ UNCHANGED engine

\* onBack of the AlbumViewer
handleBackToAlbums ==
  /\ view.of = "app" /\ view.activeTab = "albums" /\ view.selectedAlbumId # NoAlbum
  /\ view' = [view EXCEPT !.selectedAlbumId = NoAlbum]
  /\ UNCHANGED engine

\* onUploadClick (the button is rendered for a user) and the modal's onClose
setIsUploadOpen(open) ==
  /\ view.of = "app" /\ view.isUploadOpen # open
  /\ open => view.user # 0
  /\ view' = [view EXCEPT !.isUploadOpen = open]
  /\ UNCHANGED engine

\* onAddNewAlbum (the button is rendered by Albums in edit mode) and the
\* modal's onClose
setIsCreateAlbumOpen(open) ==
  /\ view.of = "app" /\ view.isCreateAlbumOpen # open
  /\ open => (view.activeTab = "albums" /\ view.selectedAlbumId = NoAlbum /\ view.isEditMode)
  /\ view' = [view EXCEPT !.isCreateAlbumOpen = open]
  /\ UNCHANGED engine

\* onEditAlbum (the button is rendered by Albums in edit mode) and the edit
\* modal's onClose
setEditingAlbum(album) ==
  /\ view.of = "app" /\ view.editingAlbum # album
  /\ album # NoAlbum =>
       (view.activeTab = "albums" /\ view.selectedAlbumId = NoAlbum /\ view.isEditMode)
  /\ view' = [view EXCEPT !.editingAlbum = album]
  /\ UNCHANGED engine

NextApp ==
  \/ \E u \in 0..2 : AuthStateChanged(u)
  \/ handleEditModeToggle
  \/ \E tab \in {"home", "photos", "albums"} : handleTabChange(tab)
  \/ \E a \in 1..MaxAlbums : handleAlbumClick(a)
  \/ handleBackToAlbums
  \/ \E open \in BOOLEAN : setIsUploadOpen(open)
  \/ \E open \in BOOLEAN : setIsCreateAlbumOpen(open)
  \/ \E a \in 0..MaxAlbums : setEditingAlbum(a)

SpecApp == InitApp /\ [][NextApp]_vars

\* C25: edit mode is on only while a user is signed in: the toggle does
\* nothing without a user, and edit mode is off after a sign-out.
C25_EditModeNeedsUser ==
  /\ [](view.of = "app" => (view.isEditMode => view.user # 0))
  /\ [][view.of = "app" =>
          /\ view'.user = 0 => ~view'.isEditMode
          /\ (view.user = 0 /\ view'.user = 0) => view'.isEditMode = view.isEditMode]_vars

\* a user has switched edit mode on and opened the album form with it
C25_Witness ==
  /\ view.of = "app" /\ view.user # 0 /\ view.isEditMode /\ view.isCreateAlbumOpen


----------------------------------------------------------------------------
\* C30: the error flag is sticky: once a load has failed, no later step clears
\* or changes it, also not a later load that succeeds.
C30_ErrorSticky == [][error # NoError => error' = error]_vars

\* one load has failed and another has delivered photos; the error is still set
C30_Witness ==
  /\ error = FetchError /\ ~loading /\ photos # <<>>
  /\ \E l, k \in Slots : loads[l].pc = "failed" /\ loads[k].pc = "done"


----------------------------------------------------------------------------
(* useGallery: the cover photo of albumsWithStats, over the hook's photos and
   albums as set-cover, move and delete leave them once their remote writes
   are confirmed. A photo's URL is its id; coverPhotoId 0 is not set and
   coverPhotoUrl 0 is absent. *)

\* coverPhoto?.url: photos.find by coverPhotoId, else albumPhotos[0]
coverPhotoUrl(ps, album) ==
  LET mine  == albumPhotos(ps, album)
      found == {i \in DOMAIN ps : album.coverPhotoId # 0 /\ ps[i].id = album.coverPhotoId}
  IN IF found # {} THEN ps[SetMin(found)].url
     ELSE IF mine # {} THEN ps[SetMin(mine)].url
     ELSE 0

\* one render of the hook: { ...album, coverPhotoUrl }
withCovers(ps, as) ==
  [of |-> "covers", photos |-> ps, albums |-> as,
   albumsWithStats |-> [k \in DOMAIN as |->
      [id |-> as[k].id, coverPhotoUrl |-> coverPhotoUrl(ps, as[k])]]]

InitCovers ==
  /\ EngineAtRest
  /\ \E ps \in [1..(MaxStat + 1) -> [albumId : 0..2]] :
       view = withCovers([i \in DOMAIN ps |-> [id |-> i, url |-> i, albumId |-> ps[i].albumId]],
                         <<[id |-> 1, coverPhotoId |-> 0], [id |-> 2, coverPhotoId |-> 0]>>)

\* handleSetAsCover on photo i: updateAlbum(currentPhotoAlbum.id, { coverPhotoId })
handleSetAsCover(i) ==
  /\ view.of = "covers" /\ i \in DOMAIN view.photos
  /\ \E k \in DOMAIN view.albums :
       /\ view.albums[k].id = view.photos[i].albumId
       /\ view' = withCovers(view.photos,
                    [view.albums EXCEPT ![k].coverPhotoId = view.photos[i].id])
  /\ UNCHANGED engine

\* updatePhotoDetails(id, { albumId }): setPhotos(map)
CoverPhotoMoved(i, a) ==
  /\ view.of = "covers" /\ i \in DOMAIN view.photos
  /\ view.photos[i].albumId # a
  /\ view' = withCovers([view.photos EXCEPT ![i].albumId = a], view.albums)
  /\ UNCHANGED engine

\* deletePhotoItem(id): setPhotos(filter)
CoverPhotoDeleted(i) ==
  /\ view.of = "covers" /\ i \in DOMAIN view.photos
  /\ view' = withCovers(SubSeq(view.photos, 1, i - 1)
                          \o SubSeq(view.photos, i + 1, Len(view.photos)), view.albums)
  /\ UNCHANGED engine

NextCovers ==
  \/ \E i \in 1..(MaxStat + 1) : handleSetAsCover(i)
  \/ \E i \in 1..(MaxStat + 1) : \E a \in 0..2 : CoverPhotoMoved(i, a)
  \/ \E i \in 1..(MaxStat + 1) : CoverPhotoDeleted(i)

SpecCovers == InitCovers /\ [][NextCovers]_vars

\* C28: every album's coverPhotoUrl is the URL of a photo that now belongs to
\* the album, and absent when the album has no photos.
C28_CoverInAlbum ==
  view.of = "covers" =>
    \A k \in DOMAIN view.albumsWithStats :
      LET a    == view.albumsWithStats[k]
          mine == {i \in DOMAIN view.photos : view.photos[i].albumId = a.id}
      IN IF mine = {} THEN a.coverPhotoUrl = 0
         ELSE \E i \in mine : a.coverPhotoUrl = view.photos[i].url


----------------------------------------------------------------------------
\* C26: the theme-rename fan-out loses no update in the store: when
\* updateAlbum(albumId, {theme: T2}, T1) succeeds with T2 # T1, every album
\* the fan-out renamed (the listing's albums on T1) that is in the store has
\* theme T2 there, whatever the order in which the calls' reads and writes
\* were served.
C26_FanOutLosesNoUpdate ==
  [][(/\ op.kind = "updateAlbum" /\ op.pc = "ack" /\ op'.result = "ok"
      /\ op.theme # op.oldTheme)
     => \A i \in DOMAIN albums : \A j \in DOMAIN meta.albums :
          (albums[i].theme = op.oldTheme /\ meta.albums[j].id = albums[i].id)
            => meta.albums[j].theme = op.theme]_vars


----------------------------------------------------------------------------
\* the batch has failed and no later call has been made
BatchFailed == op.kind = "batch" /\ op.pc = "done" /\ op.result = "error"

\* the photo is in the chunk its handle names
Persisted(p) ==
  p.chunkId \in DOMAIN chunks /\ \E k \in DOMAIN chunks[p.chunkId] : chunks[p.chunkId][k].id = p.id

\* C27: when a file of group k fails, the batch fails, no file of a later
\* group is started, the in-memory photos are what they were before the call,
\* and the photos of the groups before k are in the store.
C27_BatchFailure ==
  /\ [][(op.kind = "batch" /\ op.pc = "run" /\ op'.result # "ok") => photos' = photos]_vars
  /\ [][BatchFailed => (batch'.next = batch.next /\ photos' = photos) \/ op'.pc = "run"]_vars
  /\ [](BatchFailed => \A k \in DOMAIN batch.newPhotos : Persisted(batch.newPhotos[k]))


----------------------------------------------------------------------------
(* SpecTwoPhase: the engine under the operations that write the store and
   then the in-memory state, on a settled view: either albums are created,
   renamed and deleted, or albums are created and photos are uploaded, moved
   between them and deleted, one photo in the gallery at a time. *)

\* no album has been renamed or deleted
AlbumsUnedited ==
  /\ Len(albums) = nextAlbum - 1
  /\ \A i \in DOMAIN albums : albums[i].theme = "Travel"

InvokeTwoPhase ==
  \/ photos = <<>> /\ AlbumsUnedited /\ UploadStart(NoAlbum)
  \/ CreateAlbumStart("Travel")
  \/ \E p \in 1..MaxPhotos : \E a \in 0..MaxAlbums : UpdatePhotoStart(p, a)
  \/ \E p \in 1..MaxPhotos : DeletePhotoStart(p)
  \/ nextPhoto = 1 /\ \E a \in 1..MaxAlbums : \E t \in Themes : UpdateAlbumStart(a, t)
  \/ nextPhoto = 1 /\ \E a \in 1..MaxAlbums : DeleteAlbumStart(a)

NextTwoPhase ==
  \/ Quiet /\ InvokeTwoPhase
  \/ \E l \in Slots : LoadReadMeta(l) \/ LoadInitMeta(l) \/ LoadFail(l)
  \/ Pipeline(1)
  \/ UploadReturn
  \/ CreateAlbumWrite \/ CreateAlbumAck
  \/ UpdatePhotoRead \/ UpdatePhotoWrite \/ UpdatePhotoAck
  \/ DeletePhotoLog \/ DeletePhotoRead \/ DeletePhotoWrite \/ DeletePhotoAck
  \/ \E a \in 1..MaxAlbums : FanRead(a) \/ FanWrite(a) \/ FanFail(a)
  \/ FanJoin
  \/ UpdateAlbumRead \/ UpdateAlbumWrite \/ UpdateAlbumAck
  \/ DeleteAlbumRead \/ DeleteAlbumWrite \/ DeleteAlbumAck
  \/ OpFail

SpecTwoPhase == Init /\ [][NextTwoPhase]_vars

\* the store holds what the operation in flight is about to show locally
RemoteHolds ==
  CASE op.kind = "updatePhoto" ->
         /\ ChunkExists(op.chunkId)
         /\ \E k \in DOMAIN chunks[op.chunkId] :
              chunks[op.chunkId][k].id = op.photoId /\ chunks[op.chunkId][k].albumId = op.albumId
    [] op.kind = "deletePhoto" ->
         ~(ChunkExists(op.chunkId) /\ op.photoId \in Ids(chunks[op.chunkId]))
    [] op.kind = "createAlbum" -> meta.exists /\ op.albumId \in Ids(meta.albums)
    [] op.kind = "updateAlbum" ->
         /\ meta.exists
         /\ \E j \in DOMAIN meta.albums :
              meta.albums[j].id = op.albumId /\ meta.albums[j].theme = op.theme
    [] op.kind = "deleteAlbum" -> meta.exists /\ op.albumId \notin Ids(meta.albums)
    [] op.kind = "upload" -> Persisted(Uploaded(pipes[1]))
    [] OTHER -> FALSE

====
